---------------------------- MODULE Spec2Model ----------------------------
(***************************************************************************)
(* A model of src/HexGame_with_AI_bot.cpp: the PriorityQueue used as the   *)
(* frontier of the path search, ShortestPath::seek_path (Dijkstra with     *)
(* banned node tags) with reproduce_found_path, and the connection checks  *)
(* of Hex_Game over a Hex_Board.                                           *)
(*                                                                         *)
(* Nodes are 0..size-1 as in the source.  A triad (int_int_and_num_Triad)  *)
(* is <<value1, value2, value3>> = <<from, to, cumulative cost>>; a pair   *)
(* (int_and_num_Pair) is <<value1, value2>> = <<node, cost>>.  C++ vectors *)
(* are TLA+ sequences (index 1 is the C++ index 0).                        *)
(***************************************************************************)
EXTENDS Integers, Sequences, FiniteSets, TLC

VARIABLES
    queue,              \* PriorityQueue::queue of a stand-alone queue object
    call,               \* the last call made on that queue: [op, arg, ref]
    size,               \* Graph::size
    border_length,      \* Hex_Board::border_length (0: not a Hex board)
    connectivityMatrix, \* Graph::connectivityMatrix
    nodeTags,           \* Graph::nodeTags
    edgeList,           \* Graph::edgeList: per node, the pairs (neighbour, cost)
    conMatrix_was_computed, \* Graph::conMatrix_was_computed
    edgeList_was_computed,  \* Graph::edgeList_was_computed
    path,               \* a ShortestPath object (its private members)
    avoid,              \* seek_path's argument avoid_nodes_with_these_tags
    pc,                 \* where the caller of seek_path stands
    calls,              \* number of seek_path calls made on the object
    game,               \* a Hex_Game object (its members other than the board)
    bot                 \* the locals of the bot's turn in Hex_Game::game_loop

vars == <<queue, call, size, border_length, connectivityMatrix, nodeTags,
          edgeList, conMatrix_was_computed, edgeList_was_computed,
          path, avoid, pc, calls, game, bot>>

pqVars == <<queue, call>>
graphVars == <<size, border_length, connectivityMatrix, nodeTags>>
repVars == <<edgeList, conMatrix_was_computed, edgeList_was_computed>>
spVars == <<path, avoid, pc, calls>>
gameVars == <<game, bot>>

-----------------------------------------------------------------------------
(* Bounds of the model *)

\* the stand-alone queue: its length, the node numbers and the costs of the
\* triads put into it
MaxQueueLen == 3
MaxNode == 1
MaxCost == 2

\* the graphs searched: number of nodes, largest edge cost, number of nodes
\* carrying the banned tag, and seek_path calls made on one object
NumNodes == 4
MaxEdgeCost == 2
MaxBanned == 1
MaxCalls == 1

\* the Hex boards: largest border length, and the number of tagged cells of
\* the boards on which every seek_path call is tried
MaxBorder == 3
MaxStones == 3

\* the graphs edited through addEdge, deleteEdge and force_set_edge_value:
\* the largest node number and the largest edge cost
MaxGraphNode == 1
MaxGraphCost == 2

-----------------------------------------------------------------------------
(* Generic helpers on sequences (std::vector operations) *)

\* vector::erase(begin()+i) for the 1-based position i
erase(s, i) == [k \in 1..(Len(s) - 1) |-> IF k < i THEN s[k] ELSE s[k + 1]]

\* vector::insert(begin()+i, e): e is placed before the 1-based position i
insert_before(s, i, e) ==
    [k \in 1..(Len(s) + 1) |-> IF k < i THEN s[k] ELSE IF k = i THEN e ELSE s[k - 1]]

\* the least element of a non-empty set of integers
Least(S) == CHOOSE x \in S : \A y \in S : x <= y

-----------------------------------------------------------------------------
(* class PriorityQueue *)

\* the triad returned when nothing qualifies
Sentinel == <<-1, -1, -1>>

\* the inner loop over ref_queue: is the exact triad e among ref's entries
triad_in_ref(e, ref) == \E j \in 1..Len(ref) : ref[j] = e

contains_elem_with_val1_val2(q, val1, val2) ==
    \E i \in 1..Len(q) : q[i][1] = val1 /\ q[i][2] = val2

improves_cost_of_node(q, new_element) ==
    ~ \E i \in 1..Len(q) : q[i][2] = new_element[2] /\ q[i][3] <= new_element[3]

\* a faulty variant of insert: the new element goes behind the entries of equal cost
insert_after_equal(q, new_element) ==
    LET hits == {i \in 1..Len(q) : q[i][3] > new_element[3]}
    IN  IF hits = {} THEN Append(q, new_element)
        ELSE insert_before(q, Least(hits), new_element)

\* a faulty variant of insert: the new element is always pushed at the back
insert_push_back(q, new_element) == Append(q, new_element)

insert(q, new_element) ==
    LET hits == {i \in 1..Len(q) : q[i][3] >= new_element[3]}
    IN  IF Len(q) = 0 THEN Append(q, new_element)
        ELSE IF hits # {} THEN insert_before(q, Least(hits), new_element)
        ELSE Append(q, new_element)

\* the inner k-loop of update_queue_with_shorter_path: erase the first entry
\* whose destination is dest, if there is one
erase_first_with_val2(q, dest) ==
    LET hits == {k \in 1..Len(q) : q[k][2] = dest}
    IN  IF hits = {} THEN q ELSE erase(q, Least(hits))

\* the outer i-loop of update_queue_with_shorter_path; i is the C++ index and
\* the bound queue.size() is read again at every iteration
RECURSIVE erase_loop(_, _, _)
erase_loop(q, i, dest) ==
    IF i < Len(q) THEN erase_loop(erase_first_with_val2(q, dest), i + 1, dest)
    ELSE q

update_queue_with_shorter_path(q, new_element) ==
    insert(erase_loop(q, 0, new_element[2]), new_element)

theres_any_in_queue_not_in_ref(q, ref) ==
    IF Len(q) > 0 /\ Len(ref) = 0 THEN TRUE
    ELSE \* condition starts true and is cleared by the first queue entry found
         \* in ref, which also ends the scan
         ~ \E i \in 1..Len(q) : triad_in_ref(q[i], ref)

\* the scan shared by get_first_in_queue_not_in_ref_NotDelete and
\* getAndDelete_first_in_queue_not_in_ref: i is the 1-based position, aux the
\* flag that is set when an entry is found in ref and never cleared again.
\* The result is the position returned, or 0 when the loop runs out.
RECURSIVE scan_not_in_ref(_, _, _, _)
scan_not_in_ref(q, ref, i, aux) ==
    IF i > Len(q) THEN 0
    ELSE LET aux2 == aux \/ triad_in_ref(q[i], ref)
         IN  IF aux2 = FALSE THEN i ELSE scan_not_in_ref(q, ref, i + 1, aux2)

first_not_in_ref_index(q, ref) ==
    IF Len(q) > 0 /\ Len(ref) = 0 THEN 1 ELSE scan_not_in_ref(q, ref, 1, FALSE)

get_first_in_queue_not_in_ref_NotDelete(q, ref) ==
    LET i == first_not_in_ref_index(q, ref)
    IN  IF i = 0 THEN Sentinel ELSE q[i]

\* a faulty variant of getAndDelete_first_in_queue_not_in_ref: the triad is
\* returned and left in the queue
get_first_and_keep(q, ref) ==
    LET i == first_not_in_ref_index(q, ref)
    IN  [ret |-> IF i = 0 THEN Sentinel ELSE q[i], queue |-> q]

\* [ret |-> the triad returned, queue |-> the queue afterwards]
getAndDelete_first_in_queue_not_in_ref(q, ref) ==
    LET i == first_not_in_ref_index(q, ref)
    IN  IF i = 0 THEN [ret |-> Sentinel, queue |-> q]
        ELSE [ret |-> q[i], queue |-> erase(q, i)]

get_top_NotDelete(q) == q[1]

get_top_and_delete(q) == [ret |-> q[1], queue |-> erase(q, 1)]

get_element_n_and_delete(q, n) == [ret |-> q[n + 1], queue |-> erase(q, n + 1)]

delete_top(q) == erase(q, 1)

-----------------------------------------------------------------------------
(* class Graph, matrix representation (CON_MATRIX, the default of Hex_Board *)
(* and undirected_Graph): connectivityMatrix[i][j] = [bool, val]           *)

\* the vector 0, 1, ..., n-1
Seq0(n) == [i \in 1..n |-> i - 1]

i_is_in_vector(i, vector) == \E k \in 1..Len(vector) : vector[k] = i

NoEdge == [bool |-> FALSE, val |-> 0]

\* Graph::neighbors served from the matrix: the pairs (j, cost), j ascending
neighbors(m, sz, nodeFrom) ==
    SelectSeq([j \in 1..sz |-> <<j - 1, m[nodeFrom][j - 1].val>>],
              LAMBDA p : m[nodeFrom][p[1]].bool)

adjacent(m, nodeFrom, nodeTo) == m[nodeFrom][nodeTo].bool

-----------------------------------------------------------------------------
(* class Hex_Board *)

coordinate_to_nodeIndex(L, x, y) ==
    IF x < 0 \/ x > L - 1 \/ y < 0 \/ y > L - 1 THEN -999 ELSE x * L + y

\* a faulty variant of nodeIndex_to_coordinate: row and column exchanged
nodeIndex_to_coordinate_transposed(L, index) ==
    IF index < 0 \/ index > L * L - 1 THEN <<-999, -999>>
    ELSE <<index % L, index \div L>>

nodeIndex_to_coordinate(L, index) ==
    IF index < 0 \/ index > L * L - 1 THEN <<-999, -999>>
    ELSE <<index \div L, index % L>>

\* a faulty variant of hex_offsets: the diagonal neighbours are taken on the
\* other diagonal, (x-1, y-1) and (x+1, y+1)
hex_offsets_other_diagonal(L, x, y) ==
    {d \in {<<-1, 0>>, <<-1, -1>>, <<0, -1>>, <<0, 1>>, <<1, 1>>, <<1, 0>>} :
        /\ x + d[1] >= 0 /\ x + d[1] <= L - 1
        /\ y + d[2] >= 0 /\ y + d[2] <= L - 1}

\* the cells generate_graph_matrixMode connects to the cell (x, y), as
\* (row offset, column offset), by the class of the cell
hex_offsets(L, x, y) ==
    IF x = 0 /\ y = 0 THEN {<<0, 1>>, <<1, 0>>}
    ELSE IF x = L - 1 /\ y = L - 1 THEN {<<-1, 0>>, <<0, -1>>}
    ELSE IF x = L - 1 /\ y = 0 THEN {<<-1, 0>>, <<-1, 1>>, <<0, 1>>}
    ELSE IF x = 0 /\ y = L - 1 THEN {<<0, -1>>, <<1, -1>>, <<1, 0>>}
    ELSE IF x = 0 THEN {<<0, -1>>, <<0, 1>>, <<1, -1>>, <<1, 0>>}
    ELSE IF x = L - 1 THEN {<<-1, 0>>, <<-1, 1>>, <<0, -1>>, <<0, 1>>}
    ELSE IF y = 0 THEN {<<-1, 0>>, <<-1, 1>>, <<0, 1>>, <<1, 0>>}
    ELSE IF y = L - 1 THEN {<<-1, 0>>, <<0, -1>>, <<1, -1>>, <<1, 0>>}
    ELSE {<<-1, 0>>, <<-1, 1>>, <<0, -1>>, <<0, 1>>, <<1, -1>>, <<1, 0>>}

\* Hex_Board::generate_graph_matrixMode: entry [temp_nodeFrom][node] is set to
\* (true, 1) for every temp_nodeFrom computed for node
generate_graph_matrixMode(L) ==
    [i \in 0..(L * L - 1) |-> [j \in 0..(L * L - 1) |->
        LET c == nodeIndex_to_coordinate(L, j)
        IN  IF \E d \in hex_offsets(L, c[1], c[2]) :
                   i = (c[1] + d[1]) * L + (c[2] + d[2])
            THEN [bool |-> TRUE, val |-> 1]
            ELSE NoEdge]]

\* Graph::set_node_tag
set_node_tag(tags, node, val) == [tags EXCEPT ![node] = val]

-----------------------------------------------------------------------------
(* class ShortestPath *)

\* numeric_limits<int>::max(), the initial tentative cost
Infinity == 2147483647

\* the object after its constructor; currentNode is not initialised by the
\* constructor and is written by seek_path before anything reads it
NewShortestPath ==
    [nodeFrom |-> 0, nodeTo |-> 0, currentNode |-> 0,
     terminated |-> FALSE, path_was_seeked |-> FALSE, path_exists |-> FALSE,
     nodeTo_was_visited |-> FALSE,
     open_set |-> <<>>, closed_set |-> <<>>, tentative_costs |-> <<>>,
     neighbors |-> <<>>, queue |-> <<>>, last_top_of_queue |-> <<0, 0, 0>>,
     used_queue_elements |-> <<>>, shortest_path |-> <<>>,
     shortest_path_cost |-> Infinity, raw_shortest_path |-> <<>>,
     banned_nodes |-> <<>>,     \* seek_path's local vector banned_nodes
     fault |-> "none"]          \* an out-of-range read or write happened

\* a faulty variant of reset_if_seeked: used_queue_elements is not cleared
reset_keeping_history(p) ==
    IF p.path_was_seeked
    THEN [p EXCEPT !.open_set = <<>>, !.closed_set = <<>>,
                   !.tentative_costs = <<>>, !.neighbors = <<>>,
                   !.shortest_path = <<>>,
                   !.raw_shortest_path = <<>>, !.path_was_seeked = FALSE,
                   !.terminated = FALSE, !.path_exists = FALSE,
                   !.nodeTo_was_visited = FALSE, !.queue = <<>>,
                   !.last_top_of_queue = <<0, 0, 0>>,
                   !.shortest_path_cost = 0]
    ELSE p

\* the reset at the head of seek_path
reset_if_seeked(p) ==
    IF p.path_was_seeked
    THEN [p EXCEPT !.open_set = <<>>, !.closed_set = <<>>,
                   !.tentative_costs = <<>>, !.neighbors = <<>>,
                   !.used_queue_elements = <<>>, !.shortest_path = <<>>,
                   !.raw_shortest_path = <<>>, !.path_was_seeked = FALSE,
                   !.terminated = FALSE, !.path_exists = FALSE,
                   !.nodeTo_was_visited = FALSE, !.queue = <<>>,
                   !.last_top_of_queue = <<0, 0, 0>>,
                   !.shortest_path_cost = 0]
    ELSE p

\* a faulty variant of banned_nodes_of: the loop over the nodes stops one node early
banned_nodes_skip_last(tags, sz, avoid_tags) ==
    SelectSeq(Seq0(sz - 1), LAMBDA i : tags[i] \in avoid_tags)

\* the nodes whose tag is one of avoid_nodes_with_these_tags, ascending
banned_nodes_of(tags, sz, avoid_tags) ==
    SelectSeq(Seq0(sz), LAMBDA i : tags[i] \in avoid_tags)

\* seek_path up to the start of its while loop.  The fail-fast return leaves
\* terminated = TRUE; otherwise terminated = FALSE and the loop is entered.
seek_path_begin(p, tags, sz, _nodeFrom, _nodeTo, avoid_tags) ==
    LET p1 == [reset_if_seeked(p) EXCEPT !.nodeFrom = _nodeFrom, !.nodeTo = _nodeTo]
        banned == banned_nodes_of(tags, sz, avoid_tags)
    IN  IF i_is_in_vector(_nodeFrom, banned) \/ i_is_in_vector(_nodeTo, banned)
        THEN [p1 EXCEPT !.terminated = TRUE, !.path_was_seeked = TRUE,
                        !.path_exists = FALSE, !.banned_nodes = banned]
        ELSE [p1 EXCEPT
                !.banned_nodes = banned,
                !.open_set = SelectSeq(Seq0(sz),
                    LAMBDA i : ~i_is_in_vector(i, banned) /\ i # _nodeFrom),
                !.closed_set = SelectSeq(Seq0(sz),
                    LAMBDA i : ~i_is_in_vector(i, banned) /\ i = _nodeFrom),
                !.tentative_costs =
                    [i \in 1..sz |-> IF i - 1 # _nodeFrom THEN Infinity ELSE 0],
                !.terminated = FALSE,
                !.currentNode = _nodeFrom]

\* one neighbour of currentNode: is its triad put into the queue
relaxes(p, triad) ==
    /\ i_is_in_vector(triad[2], p.open_set)
    /\ ~i_is_in_vector(triad[2], p.banned_nodes)
    /\ contains_elem_with_val1_val2(p.queue, triad[1], triad[2]) = FALSE
    /\ improves_cost_of_node(p.queue, triad)

\* the for loop over neighbors[i]; i is the 1-based position
RECURSIVE relax_loop(_, _)
relax_loop(p, i) ==
    IF i > Len(p.neighbors) THEN p
    ELSE LET temp == <<p.neighbors[i][1],
                       p.neighbors[i][2] + p.tentative_costs[p.currentNode + 1]>>
             triad == <<p.currentNode, temp[1], temp[2]>>
         IN  relax_loop(IF relaxes(p, triad)
                        THEN [p EXCEPT !.queue = update_queue_with_shorter_path(@, triad)]
                        ELSE p,
                        i + 1)

relax_neighbors(p, m, sz) ==
    relax_loop([p EXCEPT !.neighbors = neighbors(m, sz, p.currentNode)], 1)

\* the move of currentNode from open_set to closed_set
close_node(p, node) ==
    LET hits == {i \in 1..Len(p.open_set) : p.open_set[i] = node}
    IN  IF hits = {} THEN p
        ELSE [p EXCEPT !.open_set = erase(@, Least(hits)),
                       !.closed_set = Append(@, node)]

\* tentative_costs[node] = cost; a node outside the vector is an
\* out-of-range write
set_tentative_cost(p, node, cost) ==
    IF node + 1 \in 1..Len(p.tentative_costs)
    THEN [p EXCEPT !.tentative_costs[node + 1] = cost]
    ELSE [p EXCEPT !.fault = "tentative_costs out of range"]

\* the selection half of the loop body
select_next(p) ==
    IF Len(p.queue) > 0 /\ theres_any_in_queue_not_in_ref(p.queue, p.used_queue_elements)
    THEN LET aux_top_of_queue ==
                 get_first_in_queue_not_in_ref_NotDelete(p.queue, p.used_queue_elements)
         IN  IF aux_top_of_queue[2] # p.nodeTo
             THEN LET r == getAndDelete_first_in_queue_not_in_ref(p.queue, p.used_queue_elements)
                      p1 == [p EXCEPT !.queue = r.queue,
                                      !.used_queue_elements = Append(@, r.ret),
                                      !.last_top_of_queue = r.ret,
                                      !.currentNode = r.ret[2]]
                  IN  set_tentative_cost(close_node(p1, r.ret[2]), r.ret[2], r.ret[3])
             ELSE LET p1 == [p EXCEPT !.nodeTo_was_visited = TRUE,
                                      !.used_queue_elements = Append(@, aux_top_of_queue),
                                      !.last_top_of_queue = aux_top_of_queue]
                      p2 == set_tentative_cost(p1, p1.currentNode, aux_top_of_queue[3])
                  IN  IF Len(p2.queue) > 0
                         /\ theres_any_in_queue_not_in_ref(p2.queue, p2.used_queue_elements)
                      THEN [p2 EXCEPT !.currentNode =
                              get_first_in_queue_not_in_ref_NotDelete(
                                  p2.queue, p2.used_queue_elements)[1]]
                      ELSE [p2 EXCEPT !.terminated = TRUE, !.path_exists = TRUE]
    ELSE [p EXCEPT !.terminated = TRUE, !.path_exists = p.nodeTo_was_visited]

\* one iteration of the while loop of seek_path
loop_iteration(p, m, sz) == select_next(relax_neighbors(p, m, sz))

\* elements_of_each_destination_node[i]: the used triads with destination i,
\* inserted one by one, in the order of used_queue_elements
RECURSIVE insert_all(_, _, _)
insert_all(q, s, k) ==
    IF k > Len(s) THEN q ELSE insert_all(insert(q, s[k]), s, k + 1)

elements_of_destination_node(used, i) ==
    insert_all(<<>>, SelectSeq(used, LAMBDA e : e[2] = i), 1)

\* the while loop of reproduce_found_path.  Reading the top of an empty
\* group is an out-of-range read; a walk longer than the number of used
\* triads has come back to a triad it already took and never ends.
RECURSIVE walk_back(_, _, _)
walk_back(p, currentNode, steps) ==
    IF currentNode = p.nodeFrom THEN [p EXCEPT !.currentNode = currentNode]
    ELSE IF currentNode \notin 0..(Len(p.tentative_costs) - 1)
            \/ elements_of_destination_node(p.used_queue_elements, currentNode) = <<>>
         THEN [p EXCEPT !.currentNode = currentNode,
                        !.fault = "top of an empty group"]
    ELSE IF steps > Len(p.used_queue_elements)
         THEN [p EXCEPT !.currentNode = currentNode, !.fault = "endless walk"]
    ELSE LET rawAux == get_top_NotDelete(
                 elements_of_destination_node(p.used_queue_elements, currentNode))
         IN  walk_back([p EXCEPT !.raw_shortest_path = <<rawAux>> \o @],
                       rawAux[1], steps + 1)

\* a faulty variant of reproduce_found_path: the cumulative cost of each triad is
\* reported as the step cost
reproduce_cumulative_costs(p) ==
    LET w == walk_back(p, p.nodeTo, 1)
        raw == w.raw_shortest_path
    IN  [w EXCEPT
           !.shortest_path = [i \in 1..Len(raw) |-> <<raw[i][2], raw[i][3]>>],
           !.shortest_path_cost = IF Len(raw) = 0 THEN 0 ELSE raw[Len(raw)][3]]

reproduce_found_path(p) ==
    LET w == walk_back(p, p.nodeTo, 1)
        raw == w.raw_shortest_path
    IN  [w EXCEPT
           !.shortest_path = [i \in 1..Len(raw) |->
               <<raw[i][2], raw[i][3] - (IF i = 1 THEN 0 ELSE raw[i - 1][3])>>],
           !.shortest_path_cost = IF Len(raw) = 0 THEN 0 ELSE raw[Len(raw)][3]]

\* the tail of seek_path, after the while loop
seek_path_end(p) ==
    LET p1 == [p EXCEPT !.path_was_seeked = TRUE]
    IN  IF p1.path_exists = TRUE THEN reproduce_found_path(p1) ELSE p1

RECURSIVE run_loop(_, _, _)
run_loop(p, m, sz) ==
    IF p.terminated THEN p ELSE run_loop(loop_iteration(p, m, sz), m, sz)

\* a whole call of seek_path on the object p
seek_path(p, m, tags, sz, _nodeFrom, _nodeTo, avoid_tags) ==
    LET b == seek_path_begin(p, tags, sz, _nodeFrom, _nodeTo, avoid_tags)
    IN  IF b.terminated THEN b ELSE seek_path_end(run_loop(b, m, sz))

get_path_exists(p) == p.path_exists

get_path_was_seeked(p) == p.path_was_seeked

get_path(p) ==
    IF p.path_was_seeked = TRUE
    THEN IF p.path_exists = TRUE THEN p.shortest_path ELSE <<>>
    ELSE <<>>

get_path_cost(p) ==
    IF p.path_was_seeked = TRUE
    THEN IF p.path_exists = TRUE THEN p.shortest_path_cost ELSE -1
    ELSE -1

-----------------------------------------------------------------------------
(* class Graph and undirected_Graph with both representations.  A graph g   *)
(* is [size, connectivityMatrix, edgeList, conMatrix_was_computed,          *)
(* edgeList_was_computed]; edgeList[i] is the vector of pairs <<j, cost>>.  *)

EmptyMatrix(sz) == [i \in 0..(sz - 1) |-> [j \in 0..(sz - 1) |-> NoEdge]]

\* the positions of the entries of the vector list whose value1 is node
entries_for(list, node) == {k \in 1..Len(list) : list[k][1] = node}

\* a faulty variant of generate_conMatrix_from_edgeList: the connectivity is
\* copied, the costs are not
generate_conMatrix_without_costs(g) ==
    IF g.edgeList_was_computed
    THEN [g EXCEPT
            !.connectivityMatrix =
                [i \in 0..(g.size - 1) |-> [j \in 0..(g.size - 1) |->
                    [bool |-> entries_for(g.edgeList[i], j) # {}, val |-> 0]]],
            !.conMatrix_was_computed = TRUE]
    ELSE g

\* Graph::generate_conMatrix_from_edgeList: the matrix is rebuilt from the
\* list; of several entries for one neighbour the last one written stays
generate_conMatrix_from_edgeList(g) ==
    IF g.edgeList_was_computed
    THEN [g EXCEPT
            !.connectivityMatrix =
                [i \in 0..(g.size - 1) |-> [j \in 0..(g.size - 1) |->
                    LET hits == entries_for(g.edgeList[i], j)
                    IN  IF hits = {} THEN NoEdge
                        ELSE [bool |-> TRUE,
                              val |-> g.edgeList[i][CHOOSE k \in hits :
                                                      \A h \in hits : h <= k][2]]]],
            !.conMatrix_was_computed = TRUE]
    ELSE g

\* Graph::generate_edgeList_from_conMatrix: the list is rebuilt from the
\* matrix, the neighbours of each node in ascending order
generate_edgeList_from_conMatrix(g) ==
    IF g.conMatrix_was_computed
    THEN [g EXCEPT
            !.edgeList = [i \in 0..(g.size - 1) |->
                            neighbors(g.connectivityMatrix, g.size, i)],
            !.edgeList_was_computed = TRUE]
    ELSE g

RECURSIVE SumOfLengths(_, _)
SumOfLengths(el, i) ==
    IF i \notin DOMAIN el THEN 0 ELSE Len(el[i]) + SumOfLengths(el, i + 1)

\* Graph::E: the number of (directed) edges, -1 without a representation
E(g) ==
    IF g.edgeList_was_computed THEN SumOfLengths(g.edgeList, 0)
    ELSE IF g.conMatrix_was_computed
    THEN Cardinality({e \in (0..(g.size - 1)) \X (0..(g.size - 1)) :
                        g.connectivityMatrix[e[1]][e[2]].bool})
    ELSE -1

\* Graph::adjacent, served from the list when it is materialized
Graph_adjacent(g, nodeFrom, nodeTo) ==
    IF g.edgeList_was_computed THEN entries_for(g.edgeList[nodeFrom], nodeTo) # {}
    ELSE IF g.conMatrix_was_computed THEN g.connectivityMatrix[nodeFrom][nodeTo].bool
    ELSE FALSE

\* Graph::neighbors, served from the list when it is materialized
Graph_neighbors(g, nodeFrom) ==
    IF g.edgeList_was_computed THEN g.edgeList[nodeFrom]
    ELSE IF g.conMatrix_was_computed THEN neighbors(g.connectivityMatrix, g.size, nodeFrom)
    ELSE <<>>

\* Graph::get_edge_value: the value returned (costVal is still 0 when no
\* entry is found; the matrix branch and the empty graph return 0)
get_edge_value(g, nodeFrom, nodeTo) ==
    IF g.edgeList_was_computed
    THEN LET hits == entries_for(g.edgeList[nodeFrom], nodeTo)
         IN  IF hits = {} THEN 0 ELSE g.edgeList[nodeFrom][Least(hits)][2]
    ELSE IF g.conMatrix_was_computed
    THEN IF g.connectivityMatrix[nodeFrom][nodeTo].bool
         THEN g.connectivityMatrix[nodeFrom][nodeTo].val
         ELSE 0
    ELSE 0

\* the first entry for node in the vector list gets the cost val
set_first_entry(list, node, val) ==
    LET hits == entries_for(list, node)
    IN  IF hits = {} THEN list ELSE [list EXCEPT ![Least(hits)] = <<node, val>>]

\* the first entry for node is erased from the vector list
erase_first_entry(list, node) ==
    LET hits == entries_for(list, node)
    IN  IF hits = {} THEN list ELSE erase(list, Least(hits))

set_matrix_edge(m, nodeFrom, nodeTo, pair) ==
    [[m EXCEPT ![nodeFrom][nodeTo] = pair] EXCEPT ![nodeTo][nodeFrom] = pair]

\* undirected_Graph::force_set_edge_value; the statements on the list run one
\* after the other, the second on the result of the first
force_set_edge_value(g, nodeFrom, nodeTo, val) ==
    LET el == g.edgeList
        el1 == IF entries_for(el[nodeFrom], nodeTo) # {}
               THEN LET a == [el EXCEPT ![nodeFrom] = set_first_entry(@, nodeTo, val)]
                    IN  [a EXCEPT ![nodeTo] = set_first_entry(@, nodeFrom, val)]
               ELSE LET a == [el EXCEPT ![nodeFrom] = Append(@, <<nodeTo, val>>)]
                    IN  [a EXCEPT ![nodeTo] = Append(@, <<nodeFrom, val>>)]
        g1 == IF g.edgeList_was_computed THEN [g EXCEPT !.edgeList = el1] ELSE g
    IN  IF g.conMatrix_was_computed
        THEN [g1 EXCEPT !.connectivityMatrix =
                 set_matrix_edge(@, nodeFrom, nodeTo, [bool |-> TRUE, val |-> val])]
        ELSE g1

\* undirected_Graph::addEdge: nothing changes when the edge is there already
addEdge(g, nodeFrom, nodeTo, cost) ==
    LET el == g.edgeList
        el1 == IF entries_for(el[nodeFrom], nodeTo) # {} THEN el
               ELSE LET a == [el EXCEPT ![nodeFrom] = Append(@, <<nodeTo, cost>>)]
                    IN  [a EXCEPT ![nodeTo] = Append(@, <<nodeFrom, cost>>)]
        g1 == IF g.edgeList_was_computed THEN [g EXCEPT !.edgeList = el1] ELSE g
    IN  IF g.conMatrix_was_computed /\ ~g.connectivityMatrix[nodeFrom][nodeTo].bool
        THEN [g1 EXCEPT !.connectivityMatrix =
                 set_matrix_edge(@, nodeFrom, nodeTo, [bool |-> TRUE, val |-> cost])]
        ELSE g1

\* undirected_Graph::deleteEdge
deleteEdge(g, nodeFrom, nodeTo) ==
    LET el == g.edgeList
        el1 == IF entries_for(el[nodeFrom], nodeTo) = {} THEN el
               ELSE LET a == [el EXCEPT ![nodeFrom] = erase_first_entry(@, nodeTo)]
                    IN  [a EXCEPT ![nodeTo] = erase_first_entry(@, nodeFrom)]
        g1 == IF g.edgeList_was_computed THEN [g EXCEPT !.edgeList = el1] ELSE g
    IN  IF g.conMatrix_was_computed /\ g.connectivityMatrix[nodeFrom][nodeTo].bool
        THEN [g1 EXCEPT !.connectivityMatrix = set_matrix_edge(@, nodeFrom, nodeTo, NoEdge)]
        ELSE g1

-----------------------------------------------------------------------------
(* The state before anything is constructed or called *)

NoCall == [op |-> "none", arg |-> <<>>, ref |-> <<>>, before |-> <<>>, ret |-> <<>>]

NoQueue == queue = <<>> /\ call = NoCall

NoGraph ==
    /\ size = 0
    /\ border_length = 0
    /\ connectivityMatrix = <<>>
    /\ nodeTags = <<>>
    /\ edgeList = <<>>
    /\ conMatrix_was_computed = FALSE
    /\ edgeList_was_computed = FALSE

\* a graph built in matrix mode (CON_MATRIX, the default): the edge list is
\* not materialized
MatrixOnly ==
    /\ edgeList = <<>>
    /\ conMatrix_was_computed = TRUE
    /\ edgeList_was_computed = FALSE

\* no Hex_Game object
NoGame == game = <<>> /\ bot = <<>>

NoSearch ==
    /\ path = NewShortestPath
    /\ avoid = {}
    /\ pc = "idle"
    /\ calls = 0

-----------------------------------------------------------------------------
(* A PriorityQueue object driven through its public methods *)

Triads == (0..MaxNode) \X (0..MaxNode) \X (0..MaxCost)

RefQueues == {<<>>} \cup {<<t>> : t \in Triads}

InitPQ == NoQueue /\ NoGraph /\ NoSearch /\ NoGame

Insert(e) ==
    /\ Len(queue) < MaxQueueLen
    /\ queue' = insert(queue, e)
    /\ call' = [op |-> "insert", arg |-> e, ref |-> <<>>, before |-> queue, ret |-> <<>>]
    /\ UNCHANGED <<graphVars, repVars, spVars, gameVars>>

UpdateQueueWithShorterPath(e) ==
    /\ Len(queue) < MaxQueueLen
    /\ queue' = update_queue_with_shorter_path(queue, e)
    /\ call' = [op |-> "update_queue_with_shorter_path", arg |-> e, ref |-> <<>>,
                before |-> queue, ret |-> <<>>]
    /\ UNCHANGED <<graphVars, repVars, spVars, gameVars>>

GetTopAndDelete ==
    /\ Len(queue) > 0
    /\ queue' = get_top_and_delete(queue).queue
    /\ call' = [op |-> "get_top_and_delete", arg |-> <<>>, ref |-> <<>>,
                before |-> queue, ret |-> get_top_and_delete(queue).ret]
    /\ UNCHANGED <<graphVars, repVars, spVars, gameVars>>

DeleteTop ==
    /\ Len(queue) > 0
    /\ queue' = delete_top(queue)
    /\ call' = [op |-> "delete_top", arg |-> <<>>, ref |-> <<>>,
                before |-> queue, ret |-> <<>>]
    /\ UNCHANGED <<graphVars, repVars, spVars, gameVars>>

GetElementNAndDelete(n) ==
    /\ n < Len(queue)
    /\ queue' = get_element_n_and_delete(queue, n).queue
    /\ call' = [op |-> "get_element_n_and_delete", arg |-> <<n>>, ref |-> <<>>,
                before |-> queue, ret |-> get_element_n_and_delete(queue, n).ret]
    /\ UNCHANGED <<graphVars, repVars, spVars, gameVars>>

GetAndDeleteFirstNotInRef(ref) ==
    /\ queue' = getAndDelete_first_in_queue_not_in_ref(queue, ref).queue
    /\ call' = [op |-> "getAndDelete_first_in_queue_not_in_ref", arg |-> <<>>,
                ref |-> ref, before |-> queue,
                ret |-> getAndDelete_first_in_queue_not_in_ref(queue, ref).ret]
    /\ UNCHANGED <<graphVars, repVars, spVars, gameVars>>

NextPQ ==
    \/ \E e \in Triads : Insert(e)
    \/ \E e \in Triads : UpdateQueueWithShorterPath(e)
    \/ GetTopAndDelete
    \/ DeleteTop
    \/ \E n \in 0..(MaxQueueLen - 1) : GetElementNAndDelete(n)
    \/ \E ref \in RefQueues : GetAndDeleteFirstNotInRef(ref)

SpecPQ == InitPQ /\ [][NextPQ]_vars

-----------------------------------------------------------------------------
(* seek_path on an undirected weighted graph, one loop iteration at a time *)

Nodes == 0..(NumNodes - 1)

NodePairs == {e \in Nodes \X Nodes : e[1] < e[2]}

\* the symmetric matrix of an undirected graph without self-loops (what
\* undirected_Graph::generate_graph_matrixMode builds): w gives the cost of
\* each pair i < j, or -1 for no edge
matrix_of(w) ==
    [i \in Nodes |-> [j \in Nodes |->
        IF i = j THEN NoEdge
        ELSE LET c == IF i < j THEN w[<<i, j>>] ELSE w[<<j, i>>]
             IN  IF c < 0 THEN NoEdge ELSE [bool |-> TRUE, val |-> c]]]

InitSP ==
    /\ NoQueue
    /\ NoSearch
    /\ NoGame
    /\ MatrixOnly
    /\ size = NumNodes
    /\ border_length = 0
    /\ \E w \in [NodePairs -> -1..MaxEdgeCost] : connectivityMatrix = matrix_of(w)
    /\ \E B \in SUBSET Nodes :
          /\ Cardinality(B) <= MaxBanned
          /\ nodeTags = [i \in Nodes |-> IF i \in B THEN 1 ELSE 0]

SeekPathCall(_nodeFrom, _nodeTo, avoid_tags) ==
    /\ pc = "idle"
    /\ size > 0
    /\ calls < MaxCalls
    /\ path' = seek_path_begin(path, nodeTags, size, _nodeFrom, _nodeTo, avoid_tags)
    /\ pc' = IF path'.terminated THEN "idle" ELSE "loop"
    /\ avoid' = avoid_tags
    /\ calls' = calls + 1
    /\ UNCHANGED <<pqVars, graphVars, repVars, gameVars>>

LoopIteration ==
    /\ pc = "loop"
    /\ ~path.terminated
    /\ path' = loop_iteration(path, connectivityMatrix, size)
    /\ UNCHANGED <<pqVars, graphVars, repVars, gameVars, avoid, pc, calls>>

SeekPathReturn ==
    /\ pc = "loop"
    /\ path.terminated
    /\ path' = seek_path_end(path)
    /\ pc' = "idle"
    /\ UNCHANGED <<pqVars, graphVars, repVars, gameVars, avoid, calls>>

NextSP ==
    \/ \E s \in 0..(size - 1), t \in 0..(size - 1) : SeekPathCall(s, t, {1})
    \/ LoopIteration
    \/ SeekPathReturn

SpecSP == InitSP /\ [][NextSP]_vars

\* the number of seek_path calls made on one ShortestPath object
MaxReuse == 2

\* the greatest edge cost of the graphs searched more than once
MaxReuseCost == 1

\* the graphs and tags of InitSP with edge costs up to MaxReuseCost
InitReuse ==
    /\ NoQueue
    /\ NoSearch
    /\ NoGame
    /\ MatrixOnly
    /\ size = NumNodes
    /\ border_length = 0
    /\ \E w \in [NodePairs -> -1..MaxReuseCost] : connectivityMatrix = matrix_of(w)
    /\ \E B \in SUBSET Nodes :
          /\ Cardinality(B) <= MaxBanned
          /\ nodeTags = [i \in Nodes |-> IF i \in B THEN 1 ELSE 0]

\* a whole call of seek_path on the object, which may have been used before;
\* the call records what the getters answered before it
SeekPathOnSameObject(_nodeFrom, _nodeTo, avoid_tags) ==
    /\ pc = "idle"
    /\ size > 0
    /\ calls < MaxReuse
    /\ path' = seek_path(path, connectivityMatrix, nodeTags, size,
                         _nodeFrom, _nodeTo, avoid_tags)
    /\ call' = [op |-> "seek_path", arg |-> <<_nodeFrom, _nodeTo>>, ref |-> <<>>,
                before |-> <<get_path_was_seeked(path), get_path_exists(path)>>,
                ret |-> <<>>]
    /\ avoid' = avoid_tags
    /\ calls' = calls + 1
    /\ UNCHANGED <<queue, pc, graphVars, repVars, gameVars>>

NextReuse ==
    \E s \in 0..(size - 1), t \in 0..(size - 1) : SeekPathOnSameObject(s, t, {1})

SpecReuse == InitReuse /\ [][NextReuse]_vars

-----------------------------------------------------------------------------
(* class Hex_Game: the connection checks *)

\* the double loop of the connection checks with one ShortestPath object p
\* used for all pairs: pairs[k] = <<nodeFrom, nodeTo>> in the order the two
\* nested for loops visit them, left at the first pair whose path exists
RECURSIVE connection_loop(_, _, _, _, _, _, _)
connection_loop(p, m, tags, sz, pairs, k, avoid_these_tags) ==
    IF k > Len(pairs) THEN FALSE
    ELSE LET p1 == seek_path(p, m, tags, sz, pairs[k][1], pairs[k][2], avoid_these_tags)
         IN  IF get_path_exists(p1) THEN TRUE
             ELSE connection_loop(p1, m, tags, sz, pairs, k + 1, avoid_these_tags)

\* a faulty variant of vertical_pairs: one loop, north cell n against south cell n
vertical_pairs_same_column(L) ==
    [k \in 1..L |-> <<coordinate_to_nodeIndex(L, 0, k - 1),
                      coordinate_to_nodeIndex(L, L - 1, k - 1)>>]

\* for n, for s: (0, n) -> (border_length - 1, s)
vertical_pairs(L) ==
    [k \in 1..(L * L) |-> <<coordinate_to_nodeIndex(L, 0, (k - 1) \div L),
                            coordinate_to_nodeIndex(L, L - 1, (k - 1) % L)>>]

\* for w, for e: (w, 0) -> (e, border_length - 1)
lateral_pairs(L) ==
    [k \in 1..(L * L) |-> <<coordinate_to_nodeIndex(L, (k - 1) \div L, 0),
                            coordinate_to_nodeIndex(L, (k - 1) % L, L - 1)>>]

check_connection_vertical(m, tags, L) ==
    connection_loop(NewShortestPath, m, tags, L * L, vertical_pairs(L), 1, {0, 2})

check_connection_lateral(m, tags, L) ==
    connection_loop(NewShortestPath, m, tags, L * L, lateral_pairs(L), 1, {0, 1})

check_bot_won(m, tags, L) ==
    connection_loop(NewShortestPath, m, tags, L * L, lateral_pairs(L), 1, {0, 1})

-----------------------------------------------------------------------------
(* A Hex_Board whose cells are tagged one by one *)

InitBoard ==
    /\ NoQueue
    /\ NoSearch
    /\ NoGame
    /\ MatrixOnly
    /\ \E L \in 2..MaxBorder :
          /\ border_length = L
          /\ size = L * L
          /\ connectivityMatrix = generate_graph_matrixMode(L)
          /\ nodeTags = [i \in 0..(L * L - 1) |-> 0]

StonesOn(tags) == Cardinality({i \in DOMAIN tags : tags[i] # 0})

\* Graph::set_node_tag(node, player) on a cell that is still empty, while
\* fewer than limit cells are tagged
PlaceStone(node, player, limit) ==
    /\ border_length > 0
    /\ nodeTags[node] = 0
    /\ StonesOn(nodeTags) < limit
    /\ nodeTags' = set_node_tag(nodeTags, node, player)
    /\ UNCHANGED <<pqVars, spVars, repVars, gameVars, size, border_length, connectivityMatrix>>

\* every tagging of the board
NextBoard ==
    \E node \in 0..(size - 1), player \in {1, 2} : PlaceStone(node, player, size)

SpecBoard == InitBoard /\ [][NextBoard]_vars

\* the taggings with at most MaxStones tagged cells
NextFewStones ==
    \E node \in 0..(size - 1), player \in {1, 2} : PlaceStone(node, player, MaxStones)

SpecFewStones == InitBoard /\ [][NextFewStones]_vars

-----------------------------------------------------------------------------
(* An undirected_Graph driven through its public methods *)

GraphNodes == 0..(MaxGraphNode)

\* the graph object as a record
TheGraph ==
    [size |-> size, connectivityMatrix |-> connectivityMatrix, edgeList |-> edgeList,
     conMatrix_was_computed |-> conMatrix_was_computed,
     edgeList_was_computed |-> edgeList_was_computed]

\* undirected_Graph(size, density, mode): a symmetric matrix without
\* self-loops; in EDGE_LIST mode the list is derived from it at once
InitGraph ==
    /\ NoQueue
    /\ NoSearch
    /\ NoGame
    /\ size = MaxGraphNode + 1
    /\ border_length = 0
    /\ nodeTags = [i \in GraphNodes |-> 0]
    /\ conMatrix_was_computed = TRUE
    /\ \E w \in [{e \in GraphNodes \X GraphNodes : e[1] < e[2]} -> -1..MaxGraphCost] :
          connectivityMatrix =
              [i \in GraphNodes |-> [j \in GraphNodes |->
                  IF i = j THEN NoEdge
                  ELSE LET c == IF i < j THEN w[<<i, j>>] ELSE w[<<j, i>>]
                       IN  IF c < 0 THEN NoEdge ELSE [bool |-> TRUE, val |-> c]]]
    /\ \E mode \in {"CON_MATRIX", "EDGE_LIST"} :
          IF mode = "CON_MATRIX"
          THEN edgeList = <<>> /\ edgeList_was_computed = FALSE
          ELSE /\ edgeList = [i \in GraphNodes |-> neighbors(connectivityMatrix, size, i)]
               /\ edgeList_was_computed = TRUE

\* the graph variables take the fields of g, and the call is recorded
GraphBecomes(g, op, arg) ==
    /\ border_length = 0
    /\ size > 0
    /\ game = <<>>
    /\ connectivityMatrix' = g.connectivityMatrix
    /\ edgeList' = g.edgeList
    /\ conMatrix_was_computed' = g.conMatrix_was_computed
    /\ edgeList_was_computed' = g.edgeList_was_computed
    /\ call' = [op |-> op, arg |-> arg, ref |-> <<>>, before |-> <<>>, ret |-> <<>>]
    /\ UNCHANGED <<queue, size, border_length, nodeTags, spVars, gameVars>>

AddEdge(nodeFrom, nodeTo, cost) ==
    GraphBecomes(addEdge(TheGraph, nodeFrom, nodeTo, cost), "addEdge",
                 <<nodeFrom, nodeTo, cost>>)

DeleteEdge(nodeFrom, nodeTo) ==
    GraphBecomes(deleteEdge(TheGraph, nodeFrom, nodeTo), "deleteEdge",
                 <<nodeFrom, nodeTo>>)

ForceSetEdgeValue(nodeFrom, nodeTo, val) ==
    GraphBecomes(force_set_edge_value(TheGraph, nodeFrom, nodeTo, val),
                 "force_set_edge_value", <<nodeFrom, nodeTo, val>>)

GenerateEdgeListFromConMatrix ==
    GraphBecomes(generate_edgeList_from_conMatrix(TheGraph),
                 "generate_edgeList_from_conMatrix", <<>>)

GenerateConMatrixFromEdgeList ==
    GraphBecomes(generate_conMatrix_from_edgeList(TheGraph),
                 "generate_conMatrix_from_edgeList", <<>>)

NextGraph ==
    \/ \E u \in GraphNodes, v \in GraphNodes, c \in 0..MaxGraphCost : AddEdge(u, v, c)
    \/ \E u \in GraphNodes, v \in GraphNodes : DeleteEdge(u, v)
    \/ \E u \in GraphNodes, v \in GraphNodes, c \in 0..MaxGraphCost :
          ForceSetEdgeValue(u, v, c)
    \/ GenerateEdgeListFromConMatrix
    \/ GenerateConMatrixFromEdgeList

SpecGraph == InitGraph /\ [][NextGraph]_vars

-----------------------------------------------------------------------------
(* class Hex_Board: the edges of a board *)

\* the number of edges deleteEdge may have removed from a board before
\* disconnect_node_from_neighbors is called
MaxDeletedEdges == 2

\* the pairs (i, j) in the order the two nested loops of
\* disconnect_node_from_neighbors visit them: i from 0 to size-1, j from 0 to i
disconnect_pairs(sz) ==
    [k \in 1..((sz * (sz + 1)) \div 2) |->
        LET i == CHOOSE i \in 0..(sz - 1) :
                     (i * (i + 1)) \div 2 < k /\ k <= ((i + 1) * (i + 2)) \div 2
        IN  <<i, k - 1 - (i * (i + 1)) \div 2>>]

\* the calls deleteEdge(i, j) from the k-th pair on
RECURSIVE delete_edges(_, _, _)
delete_edges(g, pairs, k) ==
    IF g.size = 0 \/ k > Len(pairs) THEN g
    ELSE delete_edges(deleteEdge(g, pairs[k][1], pairs[k][2]), pairs, k + 1)

\* Hex_Board::disconnect_node_from_neighbors(node): the loops do not read node
disconnect_node_from_neighbors(g, node) ==
    delete_edges(g, disconnect_pairs(g.size), 1)

\* Hex_Board(border_length, repr_mode): the blank connected board; in
\* EDGE_LIST mode the list is generated from the matrix
InitHexEdges ==
    /\ NoQueue
    /\ NoSearch
    /\ NoGame
    /\ conMatrix_was_computed = TRUE
    /\ \E L \in 2..MaxBorder :
          /\ border_length = L
          /\ size = L * L
          /\ connectivityMatrix = generate_graph_matrixMode(L)
          /\ nodeTags = [i \in 0..(L * L - 1) |-> 0]
          /\ \E repr_mode \in {"CON_MATRIX", "EDGE_LIST"} :
                IF repr_mode = "CON_MATRIX"
                THEN edgeList = <<>> /\ edgeList_was_computed = FALSE
                ELSE LET g == generate_edgeList_from_conMatrix(
                                  [size |-> L * L,
                                   connectivityMatrix |-> generate_graph_matrixMode(L),
                                   edgeList |-> <<>>,
                                   conMatrix_was_computed |-> TRUE,
                                   edgeList_was_computed |-> FALSE])
                     IN  edgeList = g.edgeList /\ edgeList_was_computed = TRUE

\* the edges of the blank board that the board no longer has
deleted_edges(blank) ==
    {e \in (0..(size - 1)) \X (0..(size - 1)) :
        /\ e[1] < e[2]
        /\ blank[e[1]][e[2]].bool
        /\ ~Graph_adjacent(TheGraph, e[1], e[2])}

\* the board takes the fields of g; the call is recorded, with the board
\* before it
BoardBecomes(g, op, arg, before) ==
    /\ border_length > 0
    /\ game = <<>>
    /\ connectivityMatrix' = g.connectivityMatrix
    /\ edgeList' = g.edgeList
    /\ conMatrix_was_computed' = g.conMatrix_was_computed
    /\ edgeList_was_computed' = g.edgeList_was_computed
    /\ call' = [op |-> op, arg |-> arg, ref |-> <<>>, before |-> before, ret |-> <<>>]
    /\ UNCHANGED <<queue, size, border_length, nodeTags, spVars, gameVars>>

\* deleteEdge called on a board
BoardDeleteEdge(nodeFrom, nodeTo) ==
    /\ call.op # "disconnect_node_from_neighbors"
    /\ \E blank \in {generate_graph_matrixMode(border_length)} :
          Cardinality(deleted_edges(blank)) < MaxDeletedEdges
    /\ BoardBecomes(deleteEdge(TheGraph, nodeFrom, nodeTo), "deleteEdge", <<>>, <<>>)

DisconnectNodeFromNeighbors(node) ==
    /\ call.op # "disconnect_node_from_neighbors"
    /\ BoardBecomes(disconnect_node_from_neighbors(TheGraph, node),
                    "disconnect_node_from_neighbors", <<node>>, TheGraph)

NextHexEdges ==
    \/ \E u \in 0..(size - 1), v \in 0..(size - 1) : BoardDeleteEdge(u, v)
    \/ \E node \in 0..(size - 1) : DisconnectNodeFromNeighbors(node)

SpecHexEdges == InitHexEdges /\ [][NextHexEdges]_vars

-----------------------------------------------------------------------------
(* class Hex_Game: the Monte-Carlo rollouts of the bot *)

\* the successor of a player in the turn order, (player % 2) + 1
other_player(player) == (player % 2) + 1

\* shuffle(begin(v), end(v), randengine): every order of the elements of v
shuffle(v) ==
    {s \in [1..Len(v) -> {v[i] : i \in 1..Len(v)}] :
        \A i \in 1..Len(v) : \E j \in 1..Len(v) : s[j] = v[i]}

\* the locals of one rollout; placed lists the set_node_tag calls made on the
\* clone in the order they were made, read_past_end tells that shufflable
\* was indexed at shufflable.size()
NewRollout(tags, fixed_possible_node, aux_this_is_movement_number) ==
    [tags |-> set_node_tag(tags, fixed_possible_node, 2),
     placed |-> <<<<fixed_possible_node, 2>>>>,
     aux_current_player |-> 2,
     aux_this_is_movement_number |-> aux_this_is_movement_number,
     aux_index |-> 0, nodes_examined |-> 0,
     aux_current_node |-> fixed_possible_node,
     takeover |-> FALSE, read_past_end |-> FALSE]

\* set_node_tag on the clone followed by the change of player
place_on_clone(r, node) ==
    [r EXCEPT !.tags = set_node_tag(@, node, r.aux_current_player),
              !.placed = Append(@, <<node, r.aux_current_player>>),
              !.aux_current_player = other_player(@)]

\* the loop of the rollout when swap_rule is false (for next_node : shufflable),
\* from its k-th element on
RECURSIVE rollout_without_swap(_, _, _, _)
rollout_without_swap(r, shufflable, fixed_possible_node, k) ==
    IF k > Len(shufflable) THEN r
    ELSE IF shufflable[k] # fixed_possible_node
    THEN rollout_without_swap(
             [place_on_clone(r, shufflable[k])
                 EXCEPT !.aux_this_is_movement_number = @ + 1],
             shufflable, fixed_possible_node, k + 1)
    ELSE rollout_without_swap(r, shufflable, fixed_possible_node, k + 1)

\* the choice of the next node at the end of an iteration of the loop with
\* swap_rule true. aux_index counts from 0 as in the code; reading
\* shufflable[shufflable.size()] is undefined: whatever value is read, the
\* node and index it leads to are never used, because the loop ends there
next_node_of(r, shufflable, fixed_possible_node) ==
    IF r.aux_index >= Len(shufflable)
    THEN [r EXCEPT !.read_past_end = TRUE]
    ELSE IF shufflable[r.aux_index + 1] # fixed_possible_node
    THEN [r EXCEPT !.aux_current_node = shufflable[r.aux_index + 1],
                   !.aux_index = @ + 1]
    ELSE IF r.aux_index + 1 < Len(shufflable)
    THEN [r EXCEPT !.aux_current_node = shufflable[r.aux_index + 2],
                   !.aux_index = @ + 2]
    ELSE r

\* the loop of the rollout when swap_rule is true
\* (while nodes_examined < shufflable.size()); uses_swap is the outcome of
\* probability_using_swap(gen) < 0.5, drawn only at movement 2 of player 1
RECURSIVE rollout_with_swap(_, _, _, _)
rollout_with_swap(r, shufflable, fixed_possible_node, uses_swap) ==
    IF r.nodes_examined >= Len(shufflable) THEN r
    ELSE LET r1 ==
                 IF r.aux_this_is_movement_number = 2 /\ r.aux_current_player = 1 /\ uses_swap
                 THEN [r EXCEPT !.tags = set_node_tag(@, fixed_possible_node, r.aux_current_player),
                                !.placed = Append(@, <<fixed_possible_node, r.aux_current_player>>),
                                !.aux_current_player = other_player(@),
                                !.takeover = TRUE]
                 ELSE next_node_of([place_on_clone(r, r.aux_current_node)
                                       EXCEPT !.nodes_examined = @ + 1],
                                   shufflable, fixed_possible_node)
         IN  rollout_with_swap([r1 EXCEPT !.aux_this_is_movement_number = @ + 1],
                               shufflable, fixed_possible_node, uses_swap)

\* one Monte-Carlo iteration for fixed_possible_node on a clone of the board
rollout(tags, fixed_possible_node, shufflable, swap_rule, this_is_movement_number, uses_swap) ==
    LET r == NewRollout(tags, fixed_possible_node, this_is_movement_number)
    IN  IF swap_rule
        THEN rollout_with_swap(r, shufflable, fixed_possible_node, uses_swap)
        ELSE rollout_without_swap(r, shufflable, fixed_possible_node, 1)

\* one Monte-Carlo iteration for the swap candidate: the first move of
\* player 1 is marked as player 2's and the turn returns to player 1 (this
\* loop has no movement counter: the field is not read afterwards)
rollout_of_swap(tags, player1_first_move, shufflable, this_is_movement_number) ==
    LET r == NewRollout(tags, player1_first_move, this_is_movement_number)
    IN  rollout_without_swap([r EXCEPT !.aux_current_player = other_player(@)],
                             shufflable, player1_first_move, 1)

-----------------------------------------------------------------------------
(* class Hex_Game: the game loop *)

\* the number of rollouts per candidate in the games explored (the program
\* is built with N_MC_ITERATIONS = 750; the evaluation is the same loop for
\* every value >= 1)
MaxIterations == 2

\* the border length of the boards played on
MaxGameBorder == 2

\* a win ratio is the pair <<victories, rollouts>> of the division
\* bot_victories / (bot_victories + human_victories); <<-1, 1>> is the
\* initial value -1 of ratio_bot_victories_with_swap
ratio_greater(a, b) == a[1] * b[2] > b[1] * a[2]

\* the bot outside its turn
IdleBot ==
    [phase |-> "idle", unused_nodes |-> <<>>, shufflable |-> <<>>,
     candidate |-> 0, it |-> 0, bot_victories |-> 0, human_victories |-> 0,
     nodes_and_ratios |-> <<>>, ratio_bot_victories_with_swap |-> <<-1, 1>>,
     player1_first_move |-> -999, temp_index_of_max |-> -999, temp_max |-> <<-1, 1>>,
     fixed_possible_node |-> -999, aux_board |-> <<>>, placed |-> <<>>,
     takeover |-> FALSE, read_past_end |-> FALSE]

\* the fields of a new Hex_Game; current_player is the local of game_loop
NewGame(who_starts, vs_robot, swap_rule, n) ==
    [who_starts |-> who_starts, vs_robot |-> vs_robot, swap_rule |-> swap_rule,
     this_is_movement_number |-> 1, swap_has_been_done |-> FALSE,
     game_finished |-> FALSE, who_won |-> 0,
     player_1_moves |-> <<>>, player_2_moves |-> <<>>,
     current_player |-> who_starts, N_MC_ITERATIONS |-> n, fault |-> "none"]

\* Hex_Game(border_length, who_starts, vs_robot, swap_rule) on a small board
InitNewGame ==
    /\ NoQueue
    /\ NoSearch
    /\ MatrixOnly
    /\ \E L \in 2..MaxGameBorder :
          /\ border_length = L
          /\ size = L * L
          /\ connectivityMatrix = generate_graph_matrixMode(L)
          /\ nodeTags = [i \in 0..(L * L - 1) |-> 0]
    /\ \E who_starts \in {1, 2}, vs_robot \in BOOLEAN, swap_rule \in BOOLEAN,
          n \in 1..MaxIterations :
          game = NewGame(who_starts, vs_robot, swap_rule, n)
    /\ bot = IdleBot

\* the cells taken in turn, the robot moving first, in a game on the 3 x 3
\* board without swap rule: the robot took the lowest empty cell each time
\* (the cell chosen when no candidate does better in its rollouts), player
\* 1 answered at (0,1) and (1,0)
LateGameMoves == <<0, 1, 2, 3, 4>>

\* the player of the k-th move when the robot moved first
mover(k) == IF k % 2 = 1 THEN 2 ELSE 1

\* the record of the moves of player among the first moves of a game
moves_of(moves, player, L) ==
    LET own == SelectSeq([k \in 1..Len(moves) |-> k], LAMBDA k : mover(k) = player)
    IN  [i \in 1..Len(own) |-> nodeIndex_to_coordinate(L, moves[own[i]])]

\* the 3 x 3 game against the robot after LateGameMoves
InitLateGame ==
    /\ NoQueue
    /\ NoSearch
    /\ MatrixOnly
    /\ border_length = 3
    /\ size = 9
    /\ connectivityMatrix = generate_graph_matrixMode(3)
    /\ nodeTags = [i \in 0..8 |->
                      IF \E k \in 1..Len(LateGameMoves) : LateGameMoves[k] = i
                      THEN mover(CHOOSE k \in 1..Len(LateGameMoves) : LateGameMoves[k] = i)
                      ELSE 0]
    /\ \E n \in 1..MaxIterations :
          game = [NewGame(2, TRUE, FALSE, n) EXCEPT
                     !.this_is_movement_number = Len(LateGameMoves) + 1,
                     !.player_1_moves = moves_of(LateGameMoves, 1, 3),
                     !.player_2_moves = moves_of(LateGameMoves, 2, 3),
                     !.current_player = mover(Len(LateGameMoves) + 1)]
    /\ bot = IdleBot

InitGame == InitNewGame \/ InitLateGame

\* the game loop is running and has not met undefined behaviour
Running == game # <<>> /\ game.fault = "none" /\ ~game.game_finished

\* the variables no move of the game writes
GameFrame == UNCHANGED <<pqVars, spVars, repVars, size, border_length, connectivityMatrix>>

\* the empty cells in increasing index order
empty_cells(tags, sz) == SelectSeq([i \in 1..sz |-> i - 1], LAMBDA i : tags[i] = 0)

\* player_move_by_input(player) with the valid input (x, y) and the answer
\* wanna_swap to the swap question, if it is asked: the fields of the game
\* and the tags of the board after the call
player_move_by_input(g, m, tags, L, player, x, y, wanna_swap) ==
    LET node == coordinate_to_nodeIndex(L, x, y)
        asked == g.this_is_movement_number = 1 /\ g.swap_rule
                    /\ ~(g.who_starts = 1 /\ g.vs_robot = TRUE)
        swaps == asked /\ wanna_swap
        tags1 == set_node_tag(tags, node, IF swaps THEN other_player(player) ELSE player)
        g1 == IF player = 1
              THEN [g EXCEPT !.player_1_moves = Append(@, <<x, y>>)]
              ELSE [g EXCEPT !.player_2_moves = Append(@, <<x, y>>)]
        g2 == IF ~swaps THEN g1
              ELSE IF player = 1
              THEN [g1 EXCEPT !.swap_has_been_done = TRUE, !.player_1_moves = <<>>,
                              !.player_2_moves = Append(@, <<x, y>>)]
              ELSE [g1 EXCEPT !.swap_has_been_done = TRUE, !.player_2_moves = <<>>,
                              !.player_1_moves = Append(@, <<x, y>>)]
        finished == IF player = 1 THEN check_connection_vertical(m, tags1, L)
                    ELSE check_connection_lateral(m, tags1, L)
    IN  [game |-> [g2 EXCEPT !.game_finished = finished,
                             !.who_won = IF finished THEN player ELSE @,
                             !.this_is_movement_number = @ + 1],
         tags |-> tags1]

\* a turn of a human player: in the game against the robot player 1 moves
\* unless the swap question of movement 2 is due; with two humans the first
\* call is made before the loop and decides who moves next
PlayerMoveByInput(x, y, wanna_swap) ==
    /\ Running
    /\ bot.phase \in {"idle", "applied"}
    /\ \/ game.vs_robot /\ game.current_player = 1
             /\ ~(game.this_is_movement_number = 2 /\ game.swap_rule)
       \/ ~game.vs_robot
    /\ nodeTags[coordinate_to_nodeIndex(border_length, x, y)] = 0
    /\ \E after \in {player_move_by_input(game, connectivityMatrix, nodeTags, border_length,
                                            game.current_player, x, y, wanna_swap)} :
       LET first_of_two_humans == ~game.vs_robot /\ game.this_is_movement_number = 1
       IN  /\ nodeTags' = after.tags
           /\ game' = [after.game EXCEPT !.current_player =
                          IF first_of_two_humans /\ after.game.swap_has_been_done
                          THEN game.who_starts
                          ELSE other_player(game.current_player)]
    /\ bot' = IdleBot
    /\ GameFrame

\* the swap question put to player 1 at movement 2 of a game against the
\* robot; player_2_moves[0] on an empty record is undefined
SwapQuestion(wanna_swap) ==
    /\ Running
    /\ bot.phase \in {"idle", "applied"}
    /\ game.vs_robot /\ game.current_player = 1
    /\ game.this_is_movement_number = 2 /\ game.swap_rule
    /\ IF ~wanna_swap
       THEN /\ game' = [game EXCEPT !.current_player = other_player(@)]
            /\ UNCHANGED nodeTags
       ELSE IF game.player_2_moves = <<>>
       THEN /\ game' = [game EXCEPT !.fault = "player_2_moves[0]"]
            /\ UNCHANGED nodeTags
       ELSE LET x == game.player_2_moves[1][1]
                y == game.player_2_moves[1][2]
            IN  /\ game' = [game EXCEPT !.swap_has_been_done = TRUE,
                                        !.player_2_moves = <<>>,
                                        !.player_1_moves = Append(@, <<x, y>>),
                                        !.this_is_movement_number = @ + 1,
                                        !.current_player = other_player(@)]
                /\ nodeTags' = set_node_tag(nodeTags,
                                   coordinate_to_nodeIndex(border_length, x, y), 1)
    /\ bot' = IdleBot
    /\ GameFrame

\* the end of the loop over the candidate cells: the swap candidate is
\* examined at movement 2 with the swap rule, from the last move of
\* player 1; player_1_moves[player_1_moves.size()-1] on an empty record is
\* undefined (the build at hand ends with a segmentation fault there)
after_candidates(g, b, L) ==
    IF g.this_is_movement_number = 2 /\ g.swap_rule
    THEN IF g.player_1_moves = <<>>
         THEN [game |-> [g EXCEPT !.fault = "player_1_moves[size-1]"], bot |-> b]
         ELSE LET last == g.player_1_moves[Len(g.player_1_moves)]
              IN  [game |-> g,
                   bot |-> [b EXCEPT !.phase = "swap",
                                     !.player1_first_move =
                                         coordinate_to_nodeIndex(L, last[1], last[2]),
                                     !.it = 0, !.bot_victories = 0, !.human_victories = 0]]
    ELSE [game |-> g, bot |-> [b EXCEPT !.phase = "select"]]

\* the robot's turn begins: the empty cells are collected
BotBegin ==
    /\ Running
    /\ game.vs_robot /\ game.current_player = 2
    /\ bot.phase = "idle"
    /\ LET cells == empty_cells(nodeTags, size)
           b == [IdleBot EXCEPT !.unused_nodes = cells, !.shufflable = cells,
                                !.phase = "candidates", !.candidate = 1]
       IN  IF cells = <<>>
           THEN /\ game' = after_candidates(game, b, border_length).game
                /\ bot' = after_candidates(game, b, border_length).bot
           ELSE /\ bot' = b
                /\ UNCHANGED game
    /\ UNCHANGED nodeTags
    /\ GameFrame

\* a faulty variant of count_victory: the two counters are exchanged
count_victory_exchanged(b, bot_won) ==
    IF bot_won
    THEN [b EXCEPT !.human_victories = @ + 1, !.it = @ + 1]
    ELSE [b EXCEPT !.bot_victories = @ + 1, !.it = @ + 1]

\* the counters after one rollout, bot_won being check_bot_won(*aux_board)
count_victory(b, bot_won) ==
    IF bot_won
    THEN [b EXCEPT !.bot_victories = @ + 1, !.it = @ + 1]
    ELSE [b EXCEPT !.human_victories = @ + 1, !.it = @ + 1]

\* what is kept of a rollout after its clone is deleted; fixed is the
\* candidate cell of the rollout, -999 in a rollout of the swap candidate
seen(b, r, s, fixed) ==
    [b EXCEPT !.shufflable = s, !.fixed_possible_node = fixed,
              !.aux_board = r.tags, !.placed = r.placed,
              !.takeover = r.takeover, !.read_past_end = r.read_past_end]

\* a faulty variant of Rollout: the rollout is played on the live board
\* itself instead of a clone
RolloutOnLiveBoard(s, uses_swap) ==
    /\ Running
    /\ bot.phase = "candidates"
    /\ s \in shuffle(bot.shufflable)
    /\ \E r \in {rollout(nodeTags, bot.unused_nodes[bot.candidate], s, game.swap_rule,
                        game.this_is_movement_number, uses_swap)} :
          /\ nodeTags' = r.tags
          /\ bot' = [seen(bot, r, s, bot.unused_nodes[bot.candidate]) EXCEPT !.phase = "select"]
    /\ UNCHANGED game
    /\ GameFrame

\* one Monte-Carlo iteration for the candidate cell at hand; after the last
\* one the ratio of the cell is saved and the next cell is taken
Rollout(s, uses_swap) ==
    /\ Running
    /\ bot.phase = "candidates"
    /\ s \in shuffle(bot.shufflable)
    /\ \E r \in {rollout(nodeTags, bot.unused_nodes[bot.candidate], s, game.swap_rule,
                        game.this_is_movement_number, uses_swap)} :
       \E bot_won \in {check_bot_won(connectivityMatrix, r.tags, border_length)} :
       LET fixed_possible_node == bot.unused_nodes[bot.candidate]
           b1 == count_victory(seen(bot, r, s, fixed_possible_node), bot_won)
           b2 == [b1 EXCEPT !.nodes_and_ratios =
                                Append(@, <<fixed_possible_node,
                                            <<b1.bot_victories,
                                              b1.bot_victories + b1.human_victories>>>>),
                            !.candidate = @ + 1, !.it = 0,
                            !.bot_victories = 0, !.human_victories = 0]
       IN  IF b1.it < game.N_MC_ITERATIONS
           THEN bot' = b1 /\ UNCHANGED game
           ELSE IF b2.candidate <= Len(bot.unused_nodes)
           THEN bot' = b2 /\ UNCHANGED game
           ELSE /\ game' = after_candidates(game, b2, border_length).game
                /\ bot' = after_candidates(game, b2, border_length).bot
    /\ UNCHANGED nodeTags
    /\ GameFrame

\* one Monte-Carlo iteration for the swap candidate; after the last one
\* ratio_bot_victories_with_swap is set
SwapRollout(s) ==
    /\ Running
    /\ bot.phase = "swap"
    /\ s \in shuffle(bot.shufflable)
    /\ \E r \in {rollout_of_swap(nodeTags, bot.player1_first_move, s,
                                   game.this_is_movement_number)} :
       \E bot_won \in {check_bot_won(connectivityMatrix, r.tags, border_length)} :
       LET b1 == count_victory(seen(bot, r, s, -999), bot_won)
       IN  IF b1.it < game.N_MC_ITERATIONS
           THEN bot' = b1
           ELSE bot' = [b1 EXCEPT !.phase = "select",
                                  !.ratio_bot_victories_with_swap =
                                      <<b1.bot_victories,
                                        b1.bot_victories + b1.human_victories>>]
    /\ UNCHANGED <<game, nodeTags>>
    /\ GameFrame

\* a faulty variant of most_favourable: an entry of equal ratio replaces
\* the one kept, so that the last cell of maximal ratio is chosen
RECURSIVE most_favourable_last(_, _, _)
most_favourable_last(nodes_and_ratios, best, i) ==
    IF i > Len(nodes_and_ratios) THEN best
    ELSE most_favourable_last(nodes_and_ratios,
                              IF ~ratio_greater(best[2], nodes_and_ratios[i][2])
                              THEN nodes_and_ratios[i] ELSE best,
                              i + 1)

\* the search of the most favourable cell: the entry kept after the
\* entries from the i-th on have been compared with best
RECURSIVE most_favourable(_, _, _)
most_favourable(nodes_and_ratios, best, i) ==
    IF i > Len(nodes_and_ratios) THEN best
    ELSE most_favourable(nodes_and_ratios,
                         IF ratio_greater(nodes_and_ratios[i][2], best[2])
                         THEN nodes_and_ratios[i] ELSE best,
                         i + 1)

\* a faulty variant of apply_move: the stone goes to the cell before the
\* chosen one (an index counted from 1)
apply_move_off_by_one(tags, node) ==
    set_node_tag(tags, IF node > 0 THEN node - 1 ELSE node, 2)

\* the tags of the live board after the robot's move
apply_move(tags, node) == set_node_tag(tags, node, 2)

\* the robot chooses and makes its move: a cell, or the swap when its ratio
\* is greater; nodes_and_ratios[0] on an empty vector is undefined
BotApply ==
    /\ Running
    /\ bot.phase = "select"
    /\ IF bot.nodes_and_ratios = <<>>
       THEN /\ game' = [game EXCEPT !.fault = "nodes_and_ratios[0]"]
            /\ UNCHANGED <<bot, nodeTags>>
       ELSE LET best == most_favourable(bot.nodes_and_ratios, bot.nodes_and_ratios[1], 2)
                use_swap == game.swap_rule
                               /\ ratio_greater(bot.ratio_bot_victories_with_swap, best[2])
                temp_index_of_max == IF use_swap THEN bot.player1_first_move ELSE best[1]
                temp_max == IF use_swap THEN bot.ratio_bot_victories_with_swap ELSE best[2]
                xy == nodeIndex_to_coordinate(border_length, temp_index_of_max)
                tags1 == apply_move(nodeTags, temp_index_of_max)
                finished == check_connection_lateral(connectivityMatrix, tags1, border_length)
                g1 == [game EXCEPT !.player_2_moves = Append(@, xy),
                                   !.current_player = other_player(@),
                                   !.this_is_movement_number = @ + 1]
            IN  /\ nodeTags' = tags1
                /\ game' = IF use_swap
                           THEN [g1 EXCEPT !.player_1_moves = SubSeq(@, 1, Len(@) - 1),
                                           !.swap_has_been_done = TRUE]
                           ELSE [g1 EXCEPT !.game_finished = finished,
                                           !.who_won = IF finished THEN 2 ELSE @]
                /\ bot' = [bot EXCEPT !.phase = "applied",
                                      !.temp_index_of_max = temp_index_of_max,
                                      !.temp_max = temp_max,
                                      !.fixed_possible_node = -999,
                                      !.aux_board = <<>>, !.placed = <<>>,
                                      !.takeover = FALSE, !.read_past_end = FALSE]
    /\ GameFrame

NextGame ==
    \/ \E x \in 0..(border_length - 1), y \in 0..(border_length - 1), wanna_swap \in BOOLEAN :
          PlayerMoveByInput(x, y, wanna_swap)
    \/ \E wanna_swap \in BOOLEAN : SwapQuestion(wanna_swap)
    \/ BotBegin
    \/ \E s \in shuffle(bot.shufflable), uses_swap \in BOOLEAN : Rollout(s, uses_swap)
    \/ \E s \in shuffle(bot.shufflable) : SwapRollout(s)
    \/ BotApply

SpecGame == InitGame /\ [][NextGame]_vars


-----------------------------------------------------------------------------
(* Reference notions the claims are stated against *)

\* the nodes reachable from the set R by edges of m through nodes of Free
RECURSIVE ReachFrom(_, _, _)
ReachFrom(R, m, Free) ==
    LET more == {j \in Free \ R : \E i \in R : m[i][j].bool}
    IN  IF more = {} THEN R ELSE ReachFrom(R \cup more, m, Free)

\* the nodes whose tag is not banned
FreeNodes(tags, avoid_tags) == {i \in DOMAIN tags : tags[i] \notin avoid_tags}

\* plain breadth-first reachability of t from s over non-banned nodes
BFSReaches(m, tags, avoid_tags, s, t) ==
    /\ s \in FreeNodes(tags, avoid_tags)
    /\ t \in ReachFrom({s}, m, FreeNodes(tags, avoid_tags))

Min(S) == CHOOSE x \in S : \A y \in S : x <= y

\* one round of relaxation of the cost function d over the nodes of Free
RelaxRound(d, m, Free) ==
    [v \in Free |->
        Min({d[v]} \cup {d[u] + m[u][v].val :
                            u \in {x \in Free : m[x][v].bool /\ d[x] < Infinity}})]

RECURSIVE RelaxRounds(_, _, _, _)
RelaxRounds(d, m, Free, k) ==
    IF k = 0 THEN d ELSE RelaxRounds(RelaxRound(d, m, Free), m, Free, k - 1)

\* the least total edge cost of a walk from s to t through non-banned nodes
\* (s and t not banned); Infinity when there is none
MinPathCost(m, tags, avoid_tags, s, t) ==
    LET Free == FreeNodes(tags, avoid_tags)
    IN  RelaxRounds([v \in Free |-> IF v = s THEN 0 ELSE Infinity],
                    m, Free, Cardinality(Free))[t]

\* a chain of adjacent cells tagged tag from a cell of From to a cell of To
ChainExists(m, tags, tag, From, To) ==
    LET Own == {i \in DOMAIN tags : tags[i] = tag}
    IN  ReachFrom(From \cap Own, m, Own) \cap To # {}

Row(L, x) == {x * L + y : y \in 0..(L - 1)}
Column(L, y) == {x * L + y : x \in 0..(L - 1)}

-----------------------------------------------------------------------------
(* The queue object and the path search together: a behaviour exercises     *)
(* either a stand-alone PriorityQueue (no graph loaded, size = 0) or a       *)
(* ShortestPath object, whose frontier is a PriorityQueue of its own.        *)

Init == InitPQ \/ InitSP

Next == (size = 0 /\ NextPQ) \/ NextSP

Spec == Init /\ [][Next]_vars

-----------------------------------------------------------------------------
(* Claims *)

BannedTagSets == SUBSET {0, 1, 2}

\* the result of one seek_path call on a fresh object over the board
FreshSeek(s, t, avoid_tags) ==
    seek_path(NewShortestPath, connectivityMatrix, nodeTags, size, s, t, avoid_tags)

\* C1: on a Hex board, for every banned-tag set and every pair of distinct
\* nodes, seek_path sets path_exists exactly when a breadth-first search over
\* the nodes whose tag is not banned reaches the target from the source.
C1_SeekPathMatchesBFS ==
    border_length > 0 =>
        \A avoid_tags \in BannedTagSets :
            \A s \in 0..(size - 1), t \in 0..(size - 1) :
                s # t =>
                    (get_path_exists(FreshSeek(s, t, avoid_tags))
                        <=> BFSReaches(connectivityMatrix, nodeTags, avoid_tags, s, t))

\* a 3 x 3 board with three tagged cells on which one search over the
\* player-1 cells succeeds along two steps and another, between two
\* untagged cells with stones banned, finds no path
C1_Witness ==
    /\ border_length = 3
    /\ StonesOn(nodeTags) = 3
    /\ \E s \in 0..(size - 1), t \in 0..(size - 1) :
          /\ s # t
          /\ get_path_exists(FreshSeek(s, t, {0, 2}))
          /\ Len(get_path(FreshSeek(s, t, {0, 2}))) = 2
    /\ \E s \in 0..(size - 1), t \in 0..(size - 1) :
          /\ s # t
          /\ nodeTags[s] = 0 /\ nodeTags[t] = 0
          /\ ~get_path_exists(FreshSeek(s, t, {1, 2}))

\* C2: check_connection_vertical is true exactly when a chain of adjacent
\* cells tagged 1 joins row 0 to row L-1; check_connection_lateral and
\* check_bot_won are true exactly when a chain of cells tagged 2 joins column 0
\* to column L-1; both are false on a board without stones.
C2_ConnectionChecks ==
    border_length > 0 =>
        LET L == border_length
            v == check_connection_vertical(connectivityMatrix, nodeTags, L)
            l == check_connection_lateral(connectivityMatrix, nodeTags, L)
            b == check_bot_won(connectivityMatrix, nodeTags, L)
        IN  /\ v <=> ChainExists(connectivityMatrix, nodeTags, 1, Row(L, 0), Row(L, L - 1))
            /\ l <=> ChainExists(connectivityMatrix, nodeTags, 2, Column(L, 0), Column(L, L - 1))
            /\ b <=> l
            /\ StonesOn(nodeTags) = 0 => (~v /\ ~l)
            /\ (\E y \in 0..(L - 1) : \A i \in Column(L, y) : nodeTags[i] = 1) => v

\* a full 3 x 3 board on which player 1 is connected from row 0 to row 2
\* although no column is all player 1's, and player 2 is not connected
C2_Witness ==
    /\ border_length = 3
    /\ StonesOn(nodeTags) = 9
    /\ check_connection_vertical(connectivityMatrix, nodeTags, border_length)
    /\ ~check_connection_lateral(connectivityMatrix, nodeTags, border_length)
    /\ ~ \E y \in 0..2 : \A i \in Column(3, y) : nodeTags[i] = 1

\* seek_path has been called on the object and has returned
Returned == pc = "idle" /\ calls > 0

Banned(i) == nodeTags[i] \in avoid

\* C3: seek_path(s, s, banned) with s not banned reports that a path exists,
\* with get_path_cost() = 0 and an empty get_path().
C3_SourceIsTarget ==
    (Returned /\ path.nodeFrom = path.nodeTo /\ ~Banned(path.nodeFrom)) =>
        /\ get_path_exists(path)
        /\ get_path_cost(path) = 0
        /\ get_path(path) = <<>>

\* C4: no banned node is ever in the frontier queue or in the used-entries
\* history, and when seek_path succeeds neither the source, the target nor
\* any node of get_path() carries a banned tag.
C4_NoBannedNode ==
    (size > 0 /\ border_length = 0) =>
        /\ \A i \in 1..Len(path.queue) :
              ~Banned(path.queue[i][1]) /\ ~Banned(path.queue[i][2])
        /\ \A i \in 1..Len(path.used_queue_elements) :
              /\ ~Banned(path.used_queue_elements[i][1])
              /\ ~Banned(path.used_queue_elements[i][2])
        /\ (Returned /\ get_path_exists(path)) =>
              /\ ~Banned(path.nodeFrom)
              /\ ~Banned(path.nodeTo)
              /\ \A i \in 1..Len(get_path(path)) : ~Banned(get_path(path)[i][1])

\* a successful search of two or more steps although a banned node joins
\* the source to the target more cheaply
C4_Witness ==
    /\ Returned
    /\ get_path_exists(path)
    /\ Len(get_path(path)) >= 2
    /\ \E b \in 0..(size - 1) :
          /\ Banned(b)
          /\ adjacent(connectivityMatrix, path.nodeFrom, b)
          /\ adjacent(connectivityMatrix, b, path.nodeTo)
          /\ connectivityMatrix[path.nodeFrom][b].val + connectivityMatrix[b][path.nodeTo].val
                < get_path_cost(path)

\* C5: with non-negative edge costs, for source # target joined by a path that
\* avoids the banned nodes, seek_path finds a path and get_path_cost() is the
\* least total cost of such a path.
C5_PathCostIsMinimal ==
    (Returned /\ path.nodeFrom # path.nodeTo
       /\ BFSReaches(connectivityMatrix, nodeTags, avoid, path.nodeFrom, path.nodeTo)) =>
        /\ get_path_exists(path)
        /\ get_path_cost(path) =
              MinPathCost(connectivityMatrix, nodeTags, avoid, path.nodeFrom, path.nodeTo)

\* the cheapest path has three steps and costs less than the direct edge from
\* the source to the target
C5_Witness ==
    /\ Returned
    /\ get_path_exists(path)
    /\ path.nodeFrom # path.nodeTo
    /\ adjacent(connectivityMatrix, path.nodeFrom, path.nodeTo)
    /\ connectivityMatrix[path.nodeFrom][path.nodeTo].val > get_path_cost(path)
    /\ Len(get_path(path)) = 3

\* the nodes of the walk, the source first
WalkNodes(p) == <<p.nodeFrom>> \o [i \in 1..Len(get_path(p)) |-> get_path(p)[i][1]]

RECURSIVE SumOfSteps(_, _)
SumOfSteps(sp, i) == IF i > Len(sp) THEN 0 ELSE sp[i][2] + SumOfSteps(sp, i + 1)

\* C6: when seek_path succeeds with source # target, get_path() is a walk from
\* the source (not listed) to the target over edges of the graph, without a
\* repeated node, each step cost is the cost of its edge, the step costs sum
\* to get_path_cost(), and the backward walk of reproduce_found_path never
\* read an empty group nor failed to end.
C6_PathIsWellFormed ==
    (Returned /\ get_path_exists(path) /\ path.nodeFrom # path.nodeTo) =>
        LET sp == get_path(path)
            w == WalkNodes(path)
        IN  /\ path.fault = "none"
            /\ Len(sp) >= 1
            /\ w[Len(w)] = path.nodeTo
            /\ \A i \in 1..Len(sp) :
                  /\ adjacent(connectivityMatrix, w[i], w[i + 1])
                  /\ sp[i][2] = connectivityMatrix[w[i]][w[i + 1]].val
            /\ \A i \in 1..Len(w), j \in 1..Len(w) : i # j => w[i] # w[j]
            /\ SumOfSteps(sp, 1) = get_path_cost(path)

\* a path of three steps whose steps have different costs
C6_Witness ==
    /\ Returned
    /\ get_path_exists(path)
    /\ Len(get_path(path)) = 3
    /\ get_path(path)[1][2] # get_path(path)[2][2]
    /\ get_path(path)[2][2] > 0

\* C7: seek_path goes on after the target's entry is recorded as reached and
\* ends only when every entry still in the frontier queue is in the
\* used-entries history.
C7_EndsWithFrontierConsumed ==
    (pc = "loop" /\ path.terminated) =>
        \A i \in 1..Len(path.queue) :
            triad_in_ref(path.queue[i], path.used_queue_elements)

\* the queue q is the queue b with the element e put in at position k
PutInAt(q, b, e, k) ==
    /\ Len(q) = Len(b) + 1
    /\ q[k] = e
    /\ \A i \in 1..Len(b) : q[IF i < k THEN i ELSE i + 1] = b[i]

Sorted(q) == \A i \in 1..(Len(q) - 1) : q[i][3] <= q[i + 1][3]

\* C9: after any sequence of PriorityQueue calls from the empty queue the
\* costs of the entries are non-decreasing from front to back, in the
\* frontier queue of seek_path too, and the entries seek_path consumes have
\* non-decreasing cumulative costs in the order of consumption.
C9_QueueIsSorted ==
    /\ Sorted(queue)
    /\ Sorted(path.queue)
    /\ Sorted(path.used_queue_elements)

\* an entry was taken out of the middle of a queue of three entries of three
\* different costs
C9_Witness ==
    /\ call.op = "get_element_n_and_delete"
    /\ Len(call.before) = 3
    /\ call.before[1][3] < call.before[2][3]
    /\ call.before[2][3] < call.before[3][3]
    /\ queue = <<call.before[1], call.before[3]>>

OtherDestinations(q, dest) == SelectSeq(q, LAMBDA e : e[2] # dest)

\* C10: after update_queue_with_shorter_path(t) the queue holds exactly one
\* entry for t's destination, t itself, and the entries for the other
\* destinations are all there in their previous relative order.
C10_OneEntryPerDestination ==
    call.op = "update_queue_with_shorter_path" =>
        /\ Cardinality({i \in 1..Len(queue) : queue[i][2] = call.arg[2]}) = 1
        /\ \E i \in 1..Len(queue) : queue[i] = call.arg
        /\ OtherDestinations(queue, call.arg[2]) =
              OtherDestinations(call.before, call.arg[2])

\* the position of the front-most entry of q whose triad does not occur in h,
\* 0 when every entry of q occurs in h
FrontMostNotIn(q, h) ==
    LET cand == {i \in 1..Len(q) : ~ \E j \in 1..Len(h) : h[j] = q[i]}
    IN  IF cand = {} THEN 0 ELSE CHOOSE i \in cand : \A k \in cand : i <= k

\* C11: for every queue and history list h, get_first_in_queue_not_in_ref_NotDelete(h)
\* returns the front-most entry whose triad is not in h (the sentinel only when
\* every entry is in h), theres_any_in_queue_not_in_ref(h) is true exactly when
\* there is such an entry, and getAndDelete_first_in_queue_not_in_ref(h)
\* returns that entry and removes exactly it.
C11_FirstNotInRef ==
    /\ \A h \in RefQueues :
          LET k == FrontMostNotIn(queue, h)
          IN  /\ get_first_in_queue_not_in_ref_NotDelete(queue, h) =
                    (IF k = 0 THEN Sentinel ELSE queue[k])
              /\ theres_any_in_queue_not_in_ref(queue, h) = (k # 0)
    /\ call.op = "getAndDelete_first_in_queue_not_in_ref" =>
          LET k == FrontMostNotIn(call.before, call.ref)
          IN  /\ call.ret = (IF k = 0 THEN Sentinel ELSE call.before[k])
              /\ queue = (IF k = 0 THEN call.before
                          ELSE SubSeq(call.before, 1, k - 1)
                                 \o SubSeq(call.before, k + 1, Len(call.before)))

\* the in-range cells among the six hexagonal neighbours of the cell (r, c)
HexNeighbours(L, r, c) ==
    {p[1] * L + p[2] :
        p \in {q \in {<<r - 1, c>>, <<r - 1, c + 1>>, <<r, c - 1>>,
                      <<r, c + 1>>, <<r + 1, c - 1>>, <<r + 1, c>>} :
                 q[1] >= 0 /\ q[1] <= L - 1 /\ q[2] >= 0 /\ q[2] <= L - 1}}

\* C16: on a Hex_Board of border length L >= 2, two distinct cells are
\* adjacent exactly when one is among the in-range hexagonal neighbours of the
\* other, every edge costs 1, no cell is adjacent to itself, and adjacent and
\* get_edge_value are symmetric.
C16_HexAdjacency ==
    border_length > 0 =>
        \A u \in 0..(size - 1), v \in 0..(size - 1) :
            /\ u # v =>
                  Graph_adjacent(TheGraph, u, v) =
                     (v \in HexNeighbours(border_length, u \div border_length,
                                          u % border_length))
            /\ Graph_adjacent(TheGraph, u, v) => get_edge_value(TheGraph, u, v) = 1
            /\ ~Graph_adjacent(TheGraph, u, u)
            /\ Graph_adjacent(TheGraph, u, v) = Graph_adjacent(TheGraph, v, u)
            /\ get_edge_value(TheGraph, u, v) = get_edge_value(TheGraph, v, u)

\* a 3 x 3 board: the centre cell has its six neighbours, a corner two or three
C16_Witness ==
    /\ border_length = 3
    /\ Cardinality({v \in 0..8 : Graph_adjacent(TheGraph, 4, v)}) = 6
    /\ Cardinality({v \in 0..8 : Graph_adjacent(TheGraph, 0, v)}) = 2
    /\ Cardinality({v \in 0..8 : Graph_adjacent(TheGraph, 2, v)}) = 3

\* the elements of a sequence, as a set
Range(f) == {f[i] : i \in DOMAIN f}

\* C17: for a graph whose matrix is materialized, deriving the edge list from
\* the matrix and the matrix back from the list gives the original matrix in
\* every (flag, cost) entry; adjacent, neighbors (as a set), get_edge_value and
\* E() answer the same from the matrix and from the derived list; and a
\* repeated derivation changes nothing.
C17_RoundTrip ==
    (size > 0 /\ border_length = 0 /\ conMatrix_was_computed) =>
        LET fromMatrix == [TheGraph EXCEPT !.edgeList = <<>>,
                                           !.edgeList_was_computed = FALSE]
            fromList == generate_edgeList_from_conMatrix(fromMatrix)
            back == generate_conMatrix_from_edgeList(fromList)
        IN  /\ fromList.edgeList_was_computed
            /\ back.connectivityMatrix = connectivityMatrix
            /\ E(fromMatrix) = E(fromList)
            /\ \A u \in 0..(size - 1) :
                  /\ Range(Graph_neighbors(fromMatrix, u)) = Range(Graph_neighbors(fromList, u))
                  /\ \A v \in 0..(size - 1) :
                        /\ Graph_adjacent(fromMatrix, u, v) = Graph_adjacent(fromList, u, v)
                        /\ get_edge_value(fromMatrix, u, v) = get_edge_value(fromList, u, v)
            /\ generate_edgeList_from_conMatrix(back) = back
            /\ generate_conMatrix_from_edgeList(back) = back

\* the matrix was just rebuilt from the list, and it holds an edge of cost 2,
\* an edge of another cost and a missing edge
C17_Witness ==
    /\ call.op = "generate_conMatrix_from_edgeList"
    /\ conMatrix_was_computed /\ edgeList_was_computed
    /\ \E u \in 0..(size - 1), v \in 0..(size - 1) :
          connectivityMatrix[u][v] = [bool |-> TRUE, val |-> 2]
    /\ \E u \in 0..(size - 1), v \in 0..(size - 1) :
          connectivityMatrix[u][v].bool /\ connectivityMatrix[u][v].val < 2
    /\ \E u \in 0..(size - 1), v \in 0..(size - 1) : ~connectivityMatrix[u][v].bool

\* C18: with both representations materialized, after any sequence of addEdge,
\* deleteEdge and force_set_edge_value calls the edge list of node i holds
\* exactly one entry (j, cost) for each true matrix entry [i][j], with the
\* same cost, and no other entry; and both representations are symmetric.
C18_RepresentationsAgree ==
    (size > 0 /\ border_length = 0 /\ conMatrix_was_computed /\ edgeList_was_computed
       /\ call.op \in {"none", "addEdge", "deleteEdge", "force_set_edge_value"}) =>
        \A i \in 0..(size - 1), j \in 0..(size - 1) :
            /\ Cardinality(entries_for(edgeList[i], j)) =
                  (IF connectivityMatrix[i][j].bool THEN 1 ELSE 0)
            /\ \A k \in entries_for(edgeList[i], j) :
                  edgeList[i][k][2] = connectivityMatrix[i][j].val
            /\ connectivityMatrix[i][j] = connectivityMatrix[j][i]
            /\ {edgeList[i][k][2] : k \in entries_for(edgeList[i], j)} =
                  {edgeList[j][k][2] : k \in entries_for(edgeList[j], i)}

\* C19: get_edge_value for a pair of nodes with no edge between them, and on
\* a graph with no representation built, is not a plain cost: it is not 0
\* and it differs from every value returned for an existing edge.
C19_MissingEdgeIsNotACost ==
    (size > 0 /\ border_length = 0) =>
        LET unbuilt == [TheGraph EXCEPT !.conMatrix_was_computed = FALSE,
                                        !.edgeList_was_computed = FALSE]
            existing == {get_edge_value(TheGraph, e[1], e[2]) :
                            e \in {p \in GraphNodes \X GraphNodes :
                                      Graph_adjacent(TheGraph, p[1], p[2])}}
        IN  \A u \in GraphNodes, v \in GraphNodes :
                /\ ~Graph_adjacent(TheGraph, u, v) =>
                       /\ get_edge_value(TheGraph, u, v) # 0
                       /\ get_edge_value(TheGraph, u, v) \notin existing
                /\ get_edge_value(unbuilt, u, v) # 0

\* C20: what get_path_cost() and get_path() yield on an object on which
\* seek_path was never invoked differs from what they yield after a
\* seek_path that returned without finding a path.
C20_NotComputedDiffersFromNoPath ==
    (Returned /\ get_path_was_seeked(path) /\ ~get_path_exists(path)) =>
        /\ ~get_path_was_seeked(NewShortestPath)
        /\ get_path_cost(NewShortestPath) # get_path_cost(path)
        /\ get_path(NewShortestPath) # get_path(path)

\* the cells of the shuffled list other than node, in the order of the list
others_in(shufflable, node) == SelectSeq(shufflable, LAMBDA n : n # node)

\* the set_node_tag calls of the last rollout on cells other than node
placed_besides(node) == SelectSeq(bot.placed, LAMBDA e : e[1] # node)

\* the last rollout run was one for a candidate cell, without swap takeover
CellRolloutSeen == bot.fixed_possible_node # -999 /\ ~bot.takeover

\* C12: in every rollout for a candidate cell c in which no swap takeover
\* occurs, c is tagged 2 and the other empty cells are then tagged in
\* shuffled order alternately, the first one with 1, the next with 2, ...
C12_RolloutStartsWithOpponent ==
    CellRolloutSeen =>
        LET c == bot.fixed_possible_node
            others == others_in(bot.shufflable, c)
        IN  /\ bot.aux_board[c] = 2
            /\ bot.placed[1] = <<c, 2>>
            /\ placed_besides(c) =
                  [i \in 1..Len(others) |-> <<others[i], IF i % 2 = 1 THEN 1 ELSE 2>>]

\* the empty cells of the live board that complete a west-east chain of
\* cells tagged 2 when tagged 2
completing_cells(m, tags, L) ==
    {c \in 0..(L * L - 1) :
        tags[c] = 0 /\ check_connection_lateral(m, set_node_tag(tags, c, 2), L)}

\* the ratio saved for node in nodes_and_ratios
ratio_of(nodes_and_ratios, node) ==
    LET i == CHOOSE k \in 1..Len(nodes_and_ratios) : nodes_and_ratios[k][1] = node
    IN  nodes_and_ratios[i][2]

\* the robot has just made its move in a game without swap rule from a
\* board on which cell c alone completed a west-east chain; the board it
\* moved on is the live board without the move made
MovedWithOneCompletingCell(c) ==
    /\ bot.phase = "applied"
    /\ ~game.swap_rule
    /\ completing_cells(connectivityMatrix,
                        set_node_tag(nodeTags, bot.temp_index_of_max, 0),
                        border_length) = {c}

\* C13 (as stated): without swap rule, when exactly one empty cell c
\* completes a west-east chain of the robot, the robot's move is c and the
\* ratio computed for c is 1.0.
C13_TakesTheCompletingCell ==
    \A c \in 0..(size - 1) :
        MovedWithOneCompletingCell(c) =>
            /\ ratio_of(bot.nodes_and_ratios, c)[1] = ratio_of(bot.nodes_and_ratios, c)[2]
            /\ bot.temp_index_of_max = c

\* C13 (amended): in that case the ratio computed for c is 1.0, and the
\* robot's move is the lowest-indexed empty cell whose ratio is 1.0: it is
\* c unless a lower-indexed cell won every one of its rollouts.
C13_TakesTheFirstCellOfRatioOne ==
    \A c \in 0..(size - 1) :
        MovedWithOneCompletingCell(c) =>
            LET sure == {d \in 0..(size - 1) :
                            /\ \E k \in 1..Len(bot.nodes_and_ratios) :
                                  bot.nodes_and_ratios[k][1] = d
                            /\ ratio_of(bot.nodes_and_ratios, d)[1] =
                                  ratio_of(bot.nodes_and_ratios, d)[2]}
            IN  /\ c \in sure
                /\ bot.temp_index_of_max \in sure
                /\ \A d \in sure : bot.temp_index_of_max <= d
                /\ bot.temp_max = <<game.N_MC_ITERATIONS, game.N_MC_ITERATIONS>>

\* the robot passed over the completing cell for a lower-indexed one on a
\* board with two other empty cells
C13_Witness ==
    \E c \in 0..(size - 1) :
        /\ MovedWithOneCompletingCell(c)
        /\ bot.temp_index_of_max < c
        /\ Len(bot.unused_nodes) = 3

\* the robot took the completing cell although other cells were empty
C13_WitnessTaken ==
    \E c \in 0..(size - 1) :
        /\ MovedWithOneCompletingCell(c)
        /\ bot.temp_index_of_max = c
        /\ Len(bot.unused_nodes) >= 2

\* the robot has just chosen among the candidates of its turn
Chosen == bot.phase = "applied"

\* the ratios of the ordinary cells evaluated in the turn
CellRatios == {bot.nodes_and_ratios[k][2] : k \in 1..Len(bot.nodes_and_ratios)}

\* the robot's move was the swap: it took the cell of player 1's first move
ChoseSwap == Chosen /\ game.swap_has_been_done /\ bot.temp_index_of_max = bot.player1_first_move

\* C14: the chosen candidate's ratio is not less than that of any other
\* evaluated candidate; among the ordinary cells of maximal ratio the first
\* enumerated (lowest index) is chosen; the swap candidate is chosen only
\* when its ratio is greater than the ratio of every ordinary cell.
C14_SelectionRule ==
    Chosen =>
        LET swap_ratio == bot.ratio_bot_victories_with_swap
            swap_evaluated == swap_ratio # <<-1, 1>>
        IN  /\ nodeTags[bot.temp_index_of_max] = 2
            /\ \A r \in CellRatios : ~ratio_greater(r, bot.temp_max)
            /\ swap_evaluated => ~ratio_greater(swap_ratio, bot.temp_max)
            /\ ChoseSwap =>
                  /\ swap_evaluated
                  /\ bot.temp_max = swap_ratio
                  /\ \A r \in CellRatios : ratio_greater(swap_ratio, r)
            /\ ~ChoseSwap =>
                  /\ \E k \in 1..Len(bot.nodes_and_ratios) :
                        /\ bot.nodes_and_ratios[k] = <<bot.temp_index_of_max, bot.temp_max>>
                        /\ \A j \in 1..(k - 1) :
                              /\ bot.nodes_and_ratios[j][1] < bot.temp_index_of_max
                              /\ ratio_greater(bot.temp_max, bot.nodes_and_ratios[j][2])
                  /\ swap_evaluated =>
                        \E r \in CellRatios : ~ratio_greater(swap_ratio, r)

\* the robot chose the first of two cells of equal maximal ratio although
\* the swap had been evaluated
C14_Witness ==
    /\ Chosen
    /\ ~ChoseSwap
    /\ bot.ratio_bot_victories_with_swap # <<-1, 1>>
    /\ \E j, k \in 1..Len(bot.nodes_and_ratios) :
          /\ j < k
          /\ bot.nodes_and_ratios[j] = <<bot.temp_index_of_max, bot.temp_max>>
          /\ bot.nodes_and_ratios[k][2] = bot.temp_max

\* the robot chose the swap
C14_WitnessSwap == ChoseSwap /\ Len(bot.nodes_and_ratios) >= 2

\* the cells of the live board whose tag changes in the step
changed_cells == {i \in 0..(size - 1) : nodeTags'[i] # nodeTags[i]}

\* a step of the evaluation phase of a robot's turn: the collection of the
\* empty cells, or a rollout of a candidate cell or of the swap candidate
EvaluationStep ==
    \/ bot.phase = "idle" /\ bot'.phase # "idle"
    \/ bot.phase \in {"candidates", "swap"}

\* C15: during the evaluation phase of a robot's turn the tags and edges of
\* the live board, both move records and this_is_movement_number do not
\* change, every rollout filling a copy that starts from the live tags; the
\* live board changes, in exactly one cell, when the chosen move is applied.
C15_RolloutsLeaveLiveBoard ==
    [][/\ EvaluationStep =>
              /\ nodeTags' = nodeTags
              /\ connectivityMatrix' = connectivityMatrix
              /\ size' = size /\ border_length' = border_length
              /\ game'.player_1_moves = game.player_1_moves
              /\ game'.player_2_moves = game.player_2_moves
              /\ game'.this_is_movement_number = game.this_is_movement_number
              /\ bot'.aux_board # <<>> =>
                    \A i \in 0..(size - 1) :
                        nodeTags[i] # 0 /\ i # bot'.player1_first_move
                            => bot'.aux_board[i] = nodeTags[i]
       /\ (bot.phase = "select" /\ bot'.phase = "applied") =>
              /\ Cardinality(changed_cells) = 1
              /\ changed_cells = {bot'.temp_index_of_max}
              /\ connectivityMatrix' = connectivityMatrix
      ]_vars

\* the robot has applied a move after rollouts of several cells and of the
\* swap candidate
C15_Witness ==
    /\ bot.phase = "applied"
    /\ Len(bot.nodes_and_ratios) = 3
    /\ bot.ratio_bot_victories_with_swap # <<-1, 1>>
    /\ game.N_MC_ITERATIONS = MaxIterations

\* the cells of the live board tagged with player
stones_of(tags, player) == {i \in DOMAIN tags : tags[i] = player}

\* C21: with the robot moving first and the swap rule, when player 1 declines
\* the swap offered at movement 2, player 1 places one stone of their own
\* before the turn passes to the robot.
C21_DeclinedSwapStillMoves ==
    [][(/\ game.vs_robot /\ game.swap_rule /\ game.who_starts = 2
        /\ game.this_is_movement_number = 2
        /\ game.current_player = 1
        /\ game'.current_player = 2
        /\ ~game'.swap_has_been_done)
          => Cardinality(stones_of(nodeTags', 1)) = Cardinality(stones_of(nodeTags, 1)) + 1
      ]_vars

\* C22: whenever the robot examines or applies the swap candidate (swap rule,
\* movement 2, robot's turn), player_1_moves is not empty and its last entry
\* is the only stone of the board, tagged 1; the record is never read or
\* popped when empty.
C22_SwapCandidateHasFirstMove ==
    game # <<>> =>
        /\ game.fault # "player_1_moves[size-1]"
        /\ (bot.phase = "swap" /\ game.fault = "none") =>
              /\ game.player_1_moves # <<>>
              /\ LET last == game.player_1_moves[Len(game.player_1_moves)]
                     node == coordinate_to_nodeIndex(border_length, last[1], last[2])
                 IN  /\ nodeTags[node] = 1
                     /\ bot.player1_first_move = node
                     /\ \A i \in DOMAIN nodeTags : i # node => nodeTags[i] = 0

\* the number of set_node_tag calls a rollout made on the cell node
times_assigned(placed, node) ==
    Cardinality({k \in 1..Len(placed) : placed[k][1] = node})

\* a rollout of a candidate cell with the swap rule has just been run
SwapRuleRolloutSeen ==
    /\ game # <<>> /\ game.swap_rule
    /\ bot.aux_board # <<>> /\ bot.fixed_possible_node # -999

\* C30: in a rollout with the swap rule, wherever the candidate cell stands
\* in the shuffled list, shufflable is only indexed below shufflable.size();
\* at the end the clone has no empty cell, and no cell was assigned twice
\* except the candidate cell in a swap takeover.
C30_RolloutIndicesInRange ==
    SwapRuleRolloutSeen =>
        /\ ~bot.read_past_end
        /\ \A i \in DOMAIN bot.aux_board : bot.aux_board[i] \in {1, 2}
        /\ \A i \in DOMAIN bot.aux_board :
              \/ times_assigned(bot.placed, i) <= 1
              \/ i = bot.fixed_possible_node /\ bot.takeover

\* the cells whose tag a step changes
retagged == {i \in DOMAIN nodeTags : nodeTags'[i] # nodeTags[i]}

\* the step is a swap: it sets swap_has_been_done and changes the owner of
\* cell i, the only stone of the board
SwapOf(i) ==
    /\ ~game.swap_has_been_done /\ game'.swap_has_been_done
    /\ nodeTags[i] \in {1, 2} /\ nodeTags'[i] = other_player(nodeTags[i])
    /\ \A j \in DOMAIN nodeTags : j # i => nodeTags[j] = 0

\* C24: in every step of a game a stone is written only on a cell of the live
\* board whose tag is 0; a tag other than 0 changes only in a swap, which
\* changes the owner of the single first stone; no tag returns to 0; the
\* edges of the board never change.
C24_StonesStay ==
    [][(game # <<>> /\ game' # <<>>) =>
          /\ connectivityMatrix' = connectivityMatrix
          /\ Cardinality(retagged) <= 1
          /\ \A i \in retagged :
                /\ nodeTags'[i] \in {1, 2}
                /\ nodeTags[i] # 0 => SwapOf(i)
      ]_vars

\* a swap has changed the owner of the first stone and stones were placed since
C24_Witness ==
    /\ game # <<>> /\ game.swap_has_been_done /\ game.fault = "none"
    /\ Cardinality(stones_of(nodeTags, 1)) >= 1
    /\ Cardinality(stones_of(nodeTags, 2)) >= 2
    /\ bot.phase = "applied"

\* the cells whose coordinates are in a move record
cells_of(moves) ==
    {coordinate_to_nodeIndex(border_length, moves[k][1], moves[k][2]) : k \in 1..Len(moves)}

\* no turn is under way: the game loop is between two turns or has ended
BetweenTurns == game # <<>> /\ game.fault = "none" /\ bot.phase \in {"idle", "applied"}

\* C28: between turns the move records mirror the board: the coordinates in
\* player_1_moves are the cells tagged 1 and those in player_2_moves the
\* cells tagged 2, after ordinary moves, a human swap and a robot swap.
C28_RecordsMirrorBoard ==
    BetweenTurns =>
        /\ cells_of(game.player_1_moves) = stones_of(nodeTags, 1)
        /\ cells_of(game.player_2_moves) = stones_of(nodeTags, 2)

\* the robot has swapped and both players have stones
C28_Witness ==
    /\ BetweenTurns /\ game.vs_robot /\ game.who_starts = 1 /\ game.swap_has_been_done
    /\ stones_of(nodeTags, 1) # {} /\ stones_of(nodeTags, 2) # {}

\* a human has swapped and both players have stones
C28_WitnessHumanSwap ==
    /\ BetweenTurns /\ ~game.vs_robot /\ game.swap_has_been_done
    /\ stones_of(nodeTags, 1) # {} /\ stones_of(nodeTags, 2) # {}

\* the game has ended with a winner who is connected on the live board
Finished ==
    /\ game.game_finished /\ game.who_won \in {1, 2}
    /\ IF game.who_won = 1
       THEN check_connection_vertical(connectivityMatrix, nodeTags, border_length)
       ELSE check_connection_lateral(connectivityMatrix, nodeTags, border_length)

\* C29: every game ends with game_finished true, who_won in {1, 2} and that
\* player connected on the live board, at the latest with the move that fills
\* the last empty cell: the game loop stops in no other way, a board without
\* an empty cell is a finished game, so the robot never starts a turn without
\* an empty cell and no human is asked to move on a full board.
C29_GameEndsByLastCell ==
    /\ ~Running => Finished
    /\ (empty_cells(nodeTags, size) = <<>> /\ bot.phase \in {"idle", "applied"}) => Finished


\* C23: on a board without an empty cell exactly one of the two holds: player
\* 2 is connected from west to east (check_bot_won, check_connection_lateral)
\* or player 1 from north to south (check_connection_vertical); on no board,
\* full or not, do both hold. A full board that is not a win of the robot is
\* one on which player 1 is connected.
C23_ExactlyOneConnected ==
    border_length > 0 =>
        \E lateral \in {check_connection_lateral(connectivityMatrix, nodeTags, border_length)} :
        \E vertical \in {check_connection_vertical(connectivityMatrix, nodeTags, border_length)} :
        \E bot_won \in {check_bot_won(connectivityMatrix, nodeTags, border_length)} :
            /\ ~(lateral /\ vertical)
            /\ bot_won = lateral
            /\ (\A i \in DOMAIN nodeTags : nodeTags[i] # 0) => (lateral \/ vertical)

\* a full 3x3 board that is not a win of the robot: player 1 is connected
C23_Witness ==
    /\ border_length = 3
    /\ \A i \in DOMAIN nodeTags : nodeTags[i] # 0
    /\ ~check_bot_won(connectivityMatrix, nodeTags, border_length)
    /\ check_connection_vertical(connectivityMatrix, nodeTags, border_length)

\* the frontier entry an iteration of the main loop of seek_path has consumed:
\* the last entry of used_queue_elements
consumed(p) == p.used_queue_elements[Len(p.used_queue_elements)]

\* C27: every iteration of the main loop of seek_path either sets terminated
\* or consumes a frontier entry that was not consumed before: the entry
\* joins used_queue_elements, where it was not, and leaves the queue. The
\* consumed entries are then pairwise different and at most one per node
\* other than the source, so the loop ends after at most that many
\* iterations plus one and never spins on a consumed entry.
C27_EveryIterationProgresses ==
    [][(pc = "loop" /\ ~path.terminated) =>
          /\ path'.fault = "none"
          /\ Len(path'.used_queue_elements) <= size - 1
          /\ \A i, j \in 1..Len(path'.used_queue_elements) :
                path'.used_queue_elements[i] = path'.used_queue_elements[j] => i = j
          /\ \/ path'.terminated
             \/ /\ Len(path'.used_queue_elements) = Len(path.used_queue_elements) + 1
                /\ consumed(path') # Sentinel
                /\ ~triad_in_ref(consumed(path'), path.used_queue_elements)
                /\ ~triad_in_ref(consumed(path'), path'.queue)
      ]_vars

\* the loop goes on after two entries were consumed
C27_Witness ==
    /\ pc = "loop" /\ ~path.terminated
    /\ Len(path.used_queue_elements) >= 2


\* C26: after disconnect_node_from_neighbors(n) the node n has no neighbour,
\* and every edge between two nodes that are both other than n is still
\* there with the cost it had.
C26_OnlyEdgesOfNodeRemoved ==
    call.op = "disconnect_node_from_neighbors" =>
        LET n == call.arg[1]
            others == (0..(size - 1)) \ {n}
        IN  /\ Graph_neighbors(TheGraph, n) = <<>>
            /\ \A u \in others, v \in others :
                  Graph_adjacent(call.before, u, v) =>
                      /\ Graph_adjacent(TheGraph, u, v)
                      /\ get_edge_value(TheGraph, u, v) = get_edge_value(call.before, u, v)

\* what a caller can observe of a search
results(p) == <<get_path_was_seeked(p), get_path_exists(p), get_path(p), get_path_cost(p)>>

\* C25: each seek_path call on an object that was used before answers as the
\* same call on a newly constructed ShortestPath over the same graph and
\* tags: get_path_exists, get_path and get_path_cost are the same, whether
\* the earlier search succeeded, failed or returned at once.
C25_ReuseIsFresh ==
    call.op = "seek_path" =>
        results(path) = results(FreshSeek(call.arg[1], call.arg[2], avoid))

\* a search that fails after a search on the same object that succeeded
C25_Witness ==
    /\ call.op = "seek_path" /\ calls = 2
    /\ call.before = <<TRUE, TRUE>>
    /\ ~get_path_exists(path)
    /\ path.used_queue_elements # <<>>

\* a search that succeeds after one on the same object that returned at once
\* or failed
C25_WitnessAfterFailure ==
    /\ call.op = "seek_path" /\ calls = 2
    /\ call.before = <<TRUE, FALSE>>
    /\ get_path_exists(path)
    /\ Len(get_path(path)) >= 2
=============================================================================
